---- MODULE Spec2Model ----
(***************************************************************************)
(* The tool-dispatch loop of the FRED conversational assistant:            *)
(* graph.py (call_model, call_tool, should_continue, the graph edges),     *)
(* the adapters of fred_tool.py and services.py as call_tool sees them,    *)
(* and the request boundary of api_server.py.                              *)
(***************************************************************************)
EXTENDS Integers, Sequences, FiniteSets, TLC

VARIABLES
    env,            \* ambient configuration and upstream condition of the process
    request,        \* the body of the POST /ask request (query)
    pc,             \* position of the request: "ask", "agent", "route", "tools",
                    \* "end", "error", "done"
    messages,       \* State.messages
    tool_call_count,\* State.tool_call_count
    sources,        \* State.sources
    attachments,    \* State.attachments
    series_data,    \* State.series_data
    retrieved_docs, \* State.retrieved_docs
    queries,        \* State.queries
    invocations,    \* every adapter invocation the request has made, in order
    last_act,       \* per tool call, what the last call_tool run did with it
    response,       \* what ask has answered
    fred_client,    \* the value get_fred_client has cached, shared by all requests
    requests,       \* the states of the requests that are served side by side
    fn_call,        \* a function of the services or of the FRED adapter and its arguments
    returned,       \* what that call has returned, once it has
    fomc_meetings,  \* the rows of table fomc_meetings, by meeting_id
    loaded,         \* load_meetings: the number of json_files upserted so far
    connections     \* the database connections fetch_latest has opened: "open" or "closed"

vars == <<env, request, pc, messages, tool_call_count, sources, attachments, series_data,
          retrieved_docs, queries, invocations, last_act, response, fred_client, requests,
          fn_call, returned, fomc_meetings, loaded, connections>>

-----------------------------------------------------------------------------
(* Bounds and program constants *)

MAX_TOOL_CALLS == 20

\* Model invocations explored per request (the source has no such limit).
MaxTurns == 2

-----------------------------------------------------------------------------
(* Python values *)

None == "None"

\* `not x` for the strings and None that tool arguments carry
Falsy(v) == v \in {None, ""}

\* `x or ""`
OrEmpty(v) == IF Falsy(v) THEN "" ELSE v

\* A dict of tool arguments: a function from the keys it holds to their values
NoArgs == [k \in {} |-> None]

Args(key, value) == [k \in {key} |-> value]

\* dict.get(key)
Get(args, key) == IF key \in DOMAIN args THEN args[key] ELSE None

\* dict.get(key, default)
GetDefault(args, key, default) == IF key \in DOMAIN args THEN args[key] ELSE default

ToolCall(name, args, id) == [name |-> name, args |-> args, id |-> id]

\* Text built from a template, its interpolated argument, an error text and a JSON body
Content(template, arg, detail, data) ==
    [template |-> template, arg |-> arg, detail |-> detail, data |-> data]

NoContent == Content("", "", "", <<>>)

HumanMessage(content) ==
    [type |-> "human", content |-> content, tool_calls |-> <<>>, tool_call_id |-> ""]

AIMessage(content, tool_calls) ==
    [type |-> "ai", content |-> content, tool_calls |-> tool_calls, tool_call_id |-> ""]

ToolMessage(content, tool_call_id) ==
    [type |-> "tool", content |-> content, tool_calls |-> <<>>,
     tool_call_id |-> tool_call_id]

-----------------------------------------------------------------------------
(* The environment the adapters run in *)

\* What the upstream FRED service knows
MonthlySeries == {"UNRATE", "M2SL", "CPIAUCSL"}
KnownSeries == MonthlySeries \cup {"GDP"}
KnownReleases == {"H.4.1"}

\* Every frequency taken for monthly
is_monthly_any_frequency(series_id) == series_id \in KnownSeries

\* _is_monthly on the metadata of a series
is_monthly(series_id) == series_id \in MonthlySeries

Env(key, net, pg, rows) ==
    [fred_api_key |-> key, network |-> net, pg_env |-> pg, meetings |-> rows]

\* Configurations a deployment can be in: FRED_API_KEY set or unset, the network
\* reachable or not, the PG_* variables set or unset, fomc_meetings empty or not.
Envs == { Env(TRUE, TRUE, TRUE, 2),
          Env(FALSE, TRUE, TRUE, 0),
          Env(TRUE, FALSE, TRUE, 2),
          Env(TRUE, TRUE, FALSE, 1) }

\* An adapter either returns a payload (message, list payload, error) or raises.
Returned(message, data, error) ==
    [raised |-> None, message |-> message, data |-> data, error |-> error]

Raised(exc) ==
    [raised |-> exc, message |-> NoContent, data |-> <<>>, error |-> None]

Item(kind, id) == [kind |-> kind, id |-> id]

\* FredClient.__init__ through get_fred_client, then one call on the client:
\* the exception text the call ends with, None when it succeeds.
FredClientError(series_id) ==
    IF ~env.fred_api_key
    THEN "FRED_API_KEY is required to call FRED tools but is not set."
    ELSE IF ~env.network THEN "URLError"
    ELSE IF series_id \notin KnownSeries THEN "Bad Request. The series does not exist."
    ELSE None

\* requests.get(...) followed by raise_for_status()
HttpError == IF ~env.network THEN "ConnectionError" ELSE None

fetch_chart(series_id) ==
    LET exc == FredClientError(series_id) IN
    IF exc = None
    THEN Returned(Content("Generated chart for {title} ({series_id}).", series_id, "", <<>>),
                  <<Item("image", series_id)>>, None)
    ELSE Returned(Content("Failed to generate chart for '{series_id}': {exc}",
                          series_id, exc, <<>>),
                  <<>>, exc)

fetch_recent_data(series_id) ==
    LET exc == FredClientError(series_id) IN
    IF exc = None
    THEN Returned(Content("Retrieved {n} recent data points for {title} ({series_id}).",
                          series_id, "", <<>>),
                  <<Item("datablock", series_id)>>, None)
    ELSE Returned(Content("Failed to fetch recent data for '{series_id}': {exc}",
                          series_id, exc, <<>>),
                  <<>>, exc)

analyze_series_correlation(leading_series_id, lagging_series_id, start_date, end_date) ==
    LET exc == IF FredClientError(leading_series_id) # None
               THEN FredClientError(leading_series_id)
               ELSE FredClientError(lagging_series_id)
    IN
    IF exc # None
    THEN Returned(Content("Failed to compute series correlation.", "", "", <<>>), <<>>, exc)
    ELSE IF ~is_monthly(leading_series_id) \/ ~is_monthly(lagging_series_id)
    THEN Returned(Content("Correlation helper currently supports monthly series only.",
                          leading_series_id, "", <<>>),
                  <<>>, "non_monthly_series")
    ELSE Returned(Content("Computed correlations between {leading} (leading) and {lagging} (lagging)",
                          leading_series_id, "", <<>>),
                  <<Item("analysis", leading_series_id)>>, None)

fetch_series_release_schedule(series_id) ==
    IF ~env.fred_api_key
    THEN Raised("RuntimeError: FRED_API_KEY is required to call series release tool.")
    ELSE LET exc == IF HttpError # None THEN HttpError
                    ELSE IF series_id \notin KnownSeries THEN "HTTPError 400"
                    ELSE None
         IN
         IF exc = None
         THEN Returned(Content("Series {series_id} belongs to release {release_name}",
                               series_id, "", <<>>),
                       <<Item("release_date", series_id)>>, None)
         ELSE Returned(Content("Failed to resolve release for '{series_id}': {exc}",
                               series_id, exc, <<>>),
                       <<>>, exc)

fetch_release_structure_by_name(release_name) ==
    IF ~env.fred_api_key
    THEN Raised("RuntimeError: FRED_API_KEY is required to call release tools.")
    ELSE IF HttpError # None
    THEN Returned(Content("Failed to fetch release structure for '{release_name}': {exc}",
                          release_name, HttpError, <<>>),
                  <<>>, HttpError)
    ELSE IF release_name \notin KnownReleases
    THEN Returned(Content("No release found matching '{release_name}'.", release_name, "", <<>>),
                  <<>>, "No FRED release matched '{release_name}'.")
    ELSE Returned(Content("Resolved release '{release_name}' to '{release_title}'",
                          release_name, "", <<>>),
                  <<Item("release", release_name)>>, None)

search_series(query) ==
    IF ~env.fred_api_key
    THEN Raised("RuntimeError: FRED_API_KEY is required to search FRED series.")
    ELSE IF HttpError # None
    THEN Returned(Content("Failed to search series for '{query}': {exc}", query, HttpError, <<>>),
                  <<>>, HttpError)
    ELSE Returned(Content("Found {n} series for query '{query}'.", query, "", <<>>),
                  IF query \in KnownSeries THEN <<Item("series", query)>> ELSE <<>>, None)

\* services._get_connection, fetch_latest and get_latest_payload: nothing is caught.
get_latest_payload ==
    IF ~env.pg_env
    THEN Raised("RuntimeError: Missing required environment variable: PG_HOST")
    ELSE IF ~env.network THEN Raised("psycopg2.OperationalError")
    ELSE IF env.meetings = 0 THEN Raised("LookupError: No meetings found")
    ELSE Returned(NoContent,
                  <<Item("card", "latest")>>
                      \o (IF env.meetings > 1 THEN <<Item("previous", "previous")>> ELSE <<>>),
                  None)

\* retrieval_graph.fraser_tool.search_fomc_titles: a structured result, also on failure
search_fomc_titles(query) ==
    IF ~env.pg_env \/ ~env.network
    THEN Returned(Content("Failed to search FOMC titles for '{query}': {exc}", query,
                          "connection failed", <<>>),
                  <<>>, "connection failed")
    ELSE Returned(Content("Found {n} FOMC titles for '{query}'.", query, "", <<>>),
                  <<Item("title", query)>>, None)

\* retrieval.make_retriever(config) ... retriever.ainvoke(query): ranked documents
retriever_ainvoke(query) ==
    IF env.network THEN <<Item("document", query)>> ELSE <<>>

\* _summarize_documents
summarize_documents(docs) ==
    IF docs = <<>>
    THEN Content("No documents were retrieved.", "", "", <<>>)
    ELSE Content("{format_docs}", "", "", SubSeq(docs, 1, IF Len(docs) < 3 THEN Len(docs) ELSE 3))

-----------------------------------------------------------------------------
(* call_tool: what one tool call does *)

\* The effect of one pass through the loop body: the ToolMessage content, the
\* increment of tool_call_count, the source record (none or one), the artifacts
\* collected, the adapter invoked (none or one) and the exception that escaped.
Effect(content, inc, source, atts, blocks, docs, qs, invoked, raised) ==
    [content |-> content, inc |-> inc, source |-> source, attachments |-> atts,
     series_data |-> blocks, docs |-> docs, queries |-> qs, invoked |-> invoked,
     raised |-> raised]

\* A diagnostic answer: nothing invoked, nothing counted, nothing recorded
Diagnostic(text, arg) ==
    Effect(Content(text, arg, "", <<>>), 0, <<>>, <<>>, <<>>, <<>>, <<>>, <<>>, None)

\* An exception leaving an adapter leaves call_tool too
Escaped(adapter, arg, exc) ==
    Effect(NoContent, 0, <<>>, <<>>, <<>>, <<>>, <<>>, <<[adapter |-> adapter, arg |-> arg]>>, exc)

SourceRecord(tool, arg, data) == [tool |-> tool, arg |-> arg, data |-> data]

Invoked(adapter, arg) == <<[adapter |-> adapter, arg |-> arg]>>

retrieve_documents(args) ==
    LET query == Get(args, "query") IN
    IF Falsy(query)
    THEN Diagnostic("No query provided to retrieval tool.", "")
    ELSE LET docs == retriever_ainvoke(query) IN
         Effect(summarize_documents(docs), 0, <<>>, <<>>, <<>>, docs, <<query>>,
                Invoked("retriever", query), None)

\* The fred_chart branch without its test of series_id
fred_chart_unchecked(args) ==
    LET series_id == Get(args, "series_id")
        payload == fetch_chart(series_id)
    IN
    Effect(payload.message, 1, <<SourceRecord("fred_chart", series_id, payload.data)>>,
           payload.data, <<>>, <<>>, <<>>, Invoked("fetch_chart", series_id), None)

fred_chart(args) ==
    LET series_id == Get(args, "series_id") IN
    IF Falsy(series_id)
    THEN Diagnostic("A FRED series_id is required for chart generation.", "")
    ELSE LET payload == fetch_chart(series_id) IN
         IF payload.raised # None THEN Escaped("fetch_chart", series_id, payload.raised)
         ELSE Effect(payload.message, 1,
                     <<SourceRecord("fred_chart", series_id, payload.data)>>,
                     payload.data, <<>>, <<>>, <<>>,
                     Invoked("fetch_chart", series_id), None)

\* The fred_recent_data branch putting its blocks among the attachments too
fred_recent_data_attached(args) ==
    LET series_id == Get(args, "series_id") IN
    IF Falsy(series_id)
    THEN Diagnostic("A FRED series_id is required to fetch recent data.", "")
    ELSE LET payload == fetch_recent_data(series_id) IN
         IF payload.raised # None THEN Escaped("fetch_recent_data", series_id, payload.raised)
         ELSE Effect([payload.message EXCEPT !.data = payload.data], 1,
                     <<SourceRecord("fred_recent_data", series_id, payload.data)>>,
                     payload.data, payload.data, <<>>, <<>>,
                     Invoked("fetch_recent_data", series_id), None)

fred_recent_data(args) ==
    LET series_id == Get(args, "series_id") IN
    IF Falsy(series_id)
    THEN Diagnostic("A FRED series_id is required to fetch recent data.", "")
    ELSE LET payload == fetch_recent_data(series_id) IN
         IF payload.raised # None THEN Escaped("fetch_recent_data", series_id, payload.raised)
         ELSE Effect([payload.message EXCEPT !.data = payload.data], 1,
                     <<SourceRecord("fred_recent_data", series_id, payload.data)>>,
                     <<>>, payload.data, <<>>, <<>>,
                     Invoked("fetch_recent_data", series_id), None)

fred_series_release_schedule(args) ==
    LET series_id == Get(args, "series_id") IN
    IF Falsy(series_id)
    THEN Diagnostic("A FRED series_id is required to fetch the series release schedule.", "")
    ELSE LET payload == fetch_series_release_schedule(series_id)
             schedule == payload.data
             detail == IF schedule # <<>> THEN payload.message.detail
                       ELSE IF payload.error # None THEN payload.error
                       ELSE "No release dates returned."
         IN
         IF payload.raised # None
         THEN Escaped("fetch_series_release_schedule", series_id, payload.raised)
         ELSE Effect([payload.message EXCEPT !.detail = detail, !.data = schedule], 1,
                     <<SourceRecord("fred_series_release_schedule", series_id, schedule)>>,
                     <<>>, <<>>, <<>>, <<>>,
                     Invoked("fetch_series_release_schedule", series_id), None)

fred_release_structure(args) ==
    LET release_name == Get(args, "release_name") IN
    IF Falsy(release_name)
    THEN Diagnostic("A release_name is required to fetch release structure metadata.", "")
    ELSE LET payload == fetch_release_structure_by_name(release_name) IN
         IF payload.raised # None
         THEN Escaped("fetch_release_structure_by_name", release_name, payload.raised)
         ELSE Effect([payload.message EXCEPT !.data = payload.data], 1,
                     <<SourceRecord("fred_release_structure", release_name, payload.data)>>,
                     <<>>, <<>>, <<>>, <<>>,
                     Invoked("fetch_release_structure_by_name", release_name), None)

\* The fred_search_series branch counting the call without a source record
fred_search_series_unrecorded(args) ==
    LET query == Get(args, "query") IN
    IF Falsy(query)
    THEN Diagnostic("A search query is required to search FRED series.", "")
    ELSE LET payload == search_series(query) IN
         IF payload.raised # None THEN Escaped("search_series", query, payload.raised)
         ELSE Effect([payload.message EXCEPT !.data = payload.data], 1,
                     <<>>,
                     <<>>, <<>>, <<>>, <<>>,
                     Invoked("search_series", query), None)

fred_search_series(args) ==
    LET query == Get(args, "query") IN
    IF Falsy(query)
    THEN Diagnostic("A search query is required to search FRED series.", "")
    ELSE LET payload == search_series(query) IN
         IF payload.raised # None THEN Escaped("search_series", query, payload.raised)
         ELSE Effect([payload.message EXCEPT !.data = payload.data], 1,
                     <<SourceRecord("fred_search_series", query, payload.data)>>,
                     <<>>, <<>>, <<>>, <<>>,
                     Invoked("search_series", query), None)

fred_series_correlation(args) ==
    LET leading_series_id == GetDefault(args, "leading_series_id", "M2SL")
        lagging_series_id == GetDefault(args, "lagging_series_id", "CPIAUCSL")
        start_date == GetDefault(args, "start_date", "1970-01-01")
        end_date == GetDefault(args, "end_date", "1979-12-31")
        payload == analyze_series_correlation(leading_series_id, lagging_series_id,
                                              start_date, end_date)
    IN
    IF payload.raised # None
    THEN Escaped("analyze_series_correlation", leading_series_id, payload.raised)
    ELSE Effect([payload.message EXCEPT !.data = payload.data], 1,
                <<SourceRecord("fred_series_correlation", leading_series_id, payload.data)>>,
                <<>>, <<>>, <<>>, <<>>,
                Invoked("analyze_series_correlation", leading_series_id), None)

fraser_search_fomc_titles(args) ==
    LET query == Get(args, "query") IN
    IF Falsy(query)
    THEN Diagnostic("A query is required to search FOMC titles.", "")
    ELSE LET payload == search_fomc_titles(query) IN
         IF payload.raised # None THEN Escaped("search_fomc_titles", query, payload.raised)
         ELSE Effect([payload.message EXCEPT !.data = payload.data], 1,
                     <<SourceRecord("fraser_search_fomc_titles", query, payload.data)>>,
                     <<>>, <<>>, <<>>, <<>>,
                     Invoked("search_fomc_titles", query), None)

fomc_latest_decision(args) ==
    LET payload == get_latest_payload IN
    IF payload.raised # None THEN Escaped("get_latest_payload", "", payload.raised)
    ELSE Effect(Content("Fetched latest FOMC decision card.", "", "", payload.data), 1,
                <<SourceRecord("fomc_latest_decision", "", payload.data)>>,
                <<>>, <<>>, <<>>, <<>>,
                Invoked("get_latest_payload", ""), None)

\* The else branch counting the call as a tool call
not_implemented_counted(name) ==
    Effect(Content("Tool '{name}' is not implemented.", name, "", <<>>), 1,
           <<>>, <<>>, <<>>, <<>>, <<>>, <<>>, None)

not_implemented(name) == Diagnostic("Tool '{name}' is not implemented.", name)

\* The chain with one branch under a name other than the advertised one
Dispatch_renamed_branch(name, args) ==
    CASE name = "retrieve_documents" -> retrieve_documents(args)
      [] name = "fred_chart" -> fred_chart(args)
      [] name = "fred_recent_data" -> fred_recent_data(args)
      [] name = "fred_series_release_schedule" -> fred_series_release_schedule(args)
      [] name = "fred_release_structure_by_name" -> fred_release_structure(args)
      [] name = "fred_search_series" -> fred_search_series(args)
      [] name = "fred_series_correlation" -> fred_series_correlation(args)
      [] name = "fraser_search_fomc_titles" -> fraser_search_fomc_titles(args)
      [] name = "fomc_latest_decision" -> fomc_latest_decision(args)
      [] OTHER -> not_implemented(name)

\* The if/elif chain on the tool name
Dispatch(name, args) ==
    CASE name = "retrieve_documents" -> retrieve_documents(args)
      [] name = "fred_chart" -> fred_chart(args)
      [] name = "fred_recent_data" -> fred_recent_data(args)
      [] name = "fred_series_release_schedule" -> fred_series_release_schedule(args)
      [] name = "fred_release_structure" -> fred_release_structure(args)
      [] name = "fred_search_series" -> fred_search_series(args)
      [] name = "fred_series_correlation" -> fred_series_correlation(args)
      [] name = "fraser_search_fomc_titles" -> fraser_search_fomc_titles(args)
      [] name = "fomc_latest_decision" -> fomc_latest_decision(args)
      [] OTHER -> not_implemented(name)

-----------------------------------------------------------------------------
(* call_tool: the loop over the tool calls of the last message *)

LimitContent ==
    Content("Tool-call limit reached. Provide the best answer you can with the information already collected.",
            "", "", <<>>)

\* The budget test with > for >=
BudgetReached_strict(count) == count > MAX_TOOL_CALLS

\* The budget test at the head of the loop body
BudgetReached(count) == count >= MAX_TOOL_CALLS

\* The locals of call_tool before the loop. `at` is the position of the message
\* whose tool calls are executed; `trace` and `invoked` record, per processed
\* call and per adapter invocation, the value tool_call_count had.
Locals(at, count) ==
    [at |-> at,
     tool_call_count |-> count, tool_messages |-> <<>>, sources |-> <<>>,
     attachments |-> <<>>, series_data |-> <<>>, collected_docs |-> <<>>,
     collected_queries |-> <<>>, invoked |-> <<>>, trace |-> <<>>,
     broke |-> FALSE, raised |-> None]

Stamp(invoked, count) ==
    [i \in 1..Len(invoked) |->
        [adapter |-> invoked[i].adapter, arg |-> invoked[i].arg, count_before |-> count]]

Traced(outcome, before, after, effect) ==
    [outcome |-> outcome, count_before |-> before, count_after |-> after,
     n_sources |-> Len(effect.source), n_invoked |-> Len(effect.invoked)]

\* The ToolMessage and the source record put in front of the earlier ones
Appended_newest_first(acc, call_id, e) ==
    LET count == acc.tool_call_count IN
    IF e.raised # None
    THEN [acc EXCEPT
            !.invoked = @ \o Stamp(e.invoked, count),
            !.trace = Append(@, Traced("raised", count, count, e)),
            !.raised = e.raised]
    ELSE [acc EXCEPT
            !.tool_call_count = @ + e.inc,
            !.tool_messages = <<ToolMessage(e.content, OrEmpty(call_id))>> \o @,
            !.sources = e.source \o @,
            !.attachments = @ \o e.attachments,
            !.series_data = @ \o e.series_data,
            !.collected_docs = @ \o e.docs,
            !.collected_queries = @ \o e.queries,
            !.invoked = @ \o Stamp(e.invoked, count),
            !.trace = Append(@, Traced("answered", count, count + e.inc, e))]

\* The tail of the loop body: the ToolMessage and the source record are appended
Appended(acc, call_id, e) ==
    LET count == acc.tool_call_count IN
    IF e.raised # None
    THEN [acc EXCEPT
            !.invoked = @ \o Stamp(e.invoked, count),
            !.trace = Append(@, Traced("raised", count, count, e)),
            !.raised = e.raised]
    ELSE [acc EXCEPT
            !.tool_call_count = @ + e.inc,
            !.tool_messages = Append(@, ToolMessage(e.content, OrEmpty(call_id))),
            !.sources = @ \o e.source,
            !.attachments = @ \o e.attachments,
            !.series_data = @ \o e.series_data,
            !.collected_docs = @ \o e.docs,
            !.collected_queries = @ \o e.queries,
            !.invoked = @ \o Stamp(e.invoked, count),
            !.trace = Append(@, Traced("answered", count, count + e.inc, e))]

\* The loop body without the break after the limit notice
LoopBody_no_break(acc, tool_call) ==
    LET name == tool_call.name
        args == tool_call.args
        call_id == tool_call.id
        count == acc.tool_call_count
    IN
    IF BudgetReached(count)
    THEN [acc EXCEPT
            !.tool_messages = Append(@, ToolMessage(LimitContent, OrEmpty(call_id))),
            !.trace = Append(@, Traced("limit", count, count, Diagnostic("", "")))]
    ELSE Appended(acc, call_id, Dispatch(name, args))

\* One pass through the loop body
LoopBody(acc, tool_call) ==
    LET name == tool_call.name
        args == tool_call.args
        call_id == tool_call.id
        count == acc.tool_call_count
    IN
    IF BudgetReached(count)
    THEN [acc EXCEPT
            !.tool_messages = Append(@, ToolMessage(LimitContent, OrEmpty(call_id))),
            !.trace = Append(@, Traced("limit", count, count, Diagnostic("", ""))),
            !.broke = TRUE]
    ELSE Appended(acc, call_id, Dispatch(name, args))

RECURSIVE ForEachToolCall(_, _, _)
ForEachToolCall(tool_calls, i, acc) ==
    IF i > Len(tool_calls) \/ acc.broke \/ acc.raised # None
    THEN acc
    ELSE ForEachToolCall(tool_calls, i + 1, LoopBody(acc, tool_calls[i]))

\* call_tool up to its return: the locals after the loop
call_tool(msgs, count) ==
    IF msgs = <<>>
    THEN Locals(0, count)
    ELSE LET tool_calls == msgs[Len(msgs)].tool_calls IN
         ForEachToolCall(tool_calls, 1, Locals(Len(msgs), count))

-----------------------------------------------------------------------------
(* State reducers *)

add_messages(left, right) == left \o right

accumulate(left, right) == left \o right

-----------------------------------------------------------------------------
(* What the model may answer *)

UserQuestion == Content("{query.text}", "", "", <<>>)
ModelText == Content("{model text}", "", "", <<>>)

\* The required argument of each tool that declares one (TOOL_DEFINITIONS)
RequiredArg ==
    [retrieve_documents |-> "query", fred_chart |-> "series_id",
     fred_recent_data |-> "series_id", fred_series_release_schedule |-> "series_id",
     fred_release_structure |-> "release_name", fraser_search_fomc_titles |-> "query",
     fred_search_series |-> "query"]

ToolsWithRequiredArg == DOMAIN RequiredArg

RegisteredTools == ToolsWithRequiredArg \cup {"fred_series_correlation", "fomc_latest_decision"}

\* A value the upstream knows and one it does not, per argument
GoodValue(key) == IF key = "release_name" THEN "H.4.1" ELSE "UNRATE"
BadValue(key) == "XXXX"

SingleCalls ==
    { ToolCall(n, NoArgs, "1") : n \in ToolsWithRequiredArg }
    \cup { ToolCall(n, Args(RequiredArg[n], v), "1") :
              n \in ToolsWithRequiredArg, v \in {""} }
    \cup { ToolCall(n, Args(RequiredArg[n], GoodValue(RequiredArg[n])), "1") :
              n \in ToolsWithRequiredArg }
    \cup { ToolCall(n, Args(RequiredArg[n], BadValue(RequiredArg[n])), "1") :
              n \in ToolsWithRequiredArg }
    \cup { ToolCall("fred_series_correlation", a, "1") :
              a \in {NoArgs, Args("leading_series_id", "XXXX"), Args("lagging_series_id", "GDP")} }
    \cup { ToolCall("fomc_latest_decision", NoArgs, "1"),
           ToolCall("fred_plot", Args("series_id", "UNRATE"), "1"),
           ToolCall("fred_chart", Args("series_id", "UNRATE"), None) }

\* The calls that longer requests are put together from: a counted call, the
\* retrieval call, an unknown tool, a known tool without its argument
Counted == ToolCall("fred_chart", Args("series_id", "UNRATE"), "1")
Retrieval == ToolCall("retrieve_documents", Args("query", "UNRATE"), "1")
Unknown == ToolCall("fred_plot", NoArgs, "1")
NoArgument == ToolCall("fred_recent_data", NoArgs, "1")

MixCalls == <<Counted, Retrieval, Unknown>>

WithIds(calls) == [i \in DOMAIN calls |-> [calls[i] EXCEPT !.id = ToString(i)]]

Pairs == { WithIds(<<MixCalls[a], MixCalls[b]>>) : a, b \in DOMAIN MixCalls }

\* Requests that bring tool_call_count to the budget or one short of it, and
\* then ask for more
Tails == { <<>>, <<Counted>>, <<Unknown>>, <<Retrieval, NoArgument>>, <<Unknown, Counted>> }

LongBatches ==
    { WithIds([i \in 1..n |-> Counted] \o tail) :
        n \in {MAX_TOOL_CALLS - 1, MAX_TOOL_CALLS}, tail \in Tails }

ModelOutputs == {<<>>} \cup { <<c>> : c \in SingleCalls } \cup Pairs \cup LongBatches

-----------------------------------------------------------------------------
(* The request boundary: POST /ask *)

Text(s) == Content(s, "", "", <<>>)

\* One entry of query.conversation: a dict with a role and a content
Turn(role, content) == [k \in {"role", "content"} |-> IF k = "role" THEN role ELSE content]

Query(text, conversation) == [text |-> text, conversation |-> conversation]

\* The loop over query.conversation: a subscript of a key the dict lacks raises
RECURSIVE AddPrevious(_, _, _)
AddPrevious(conversation, i, acc) ==
    IF i > Len(conversation) \/ acc.raised # None
    THEN acc
    ELSE LET msg == conversation[i] IN
         AddPrevious(conversation, i + 1,
            IF "role" \notin DOMAIN msg
            THEN [acc EXCEPT !.raised = "KeyError"]
            ELSE IF msg["role"] = "user"
            THEN IF "content" \notin DOMAIN msg
                 THEN [acc EXCEPT !.raised = "KeyError"]
                 ELSE [acc EXCEPT !.messages = Append(@, HumanMessage(msg["content"]))]
            ELSE IF msg["role"] = "assistant"
            THEN IF "content" \notin DOMAIN msg
                 THEN [acc EXCEPT !.raised = "KeyError"]
                 ELSE [acc EXCEPT !.messages = Append(@, AIMessage(msg["content"], <<>>))]
            ELSE acc)

\* The history with the new message put first
BuildHistory_newest_first(q) ==
    LET previous == AddPrevious(q.conversation, 1, [messages |-> <<>>, raised |-> None]) IN
    IF previous.raised # None
    THEN previous
    ELSE [previous EXCEPT !.messages = <<HumanMessage(q.text)>> \o @]

\* The history ask hands to the graph: the previous conversation, then the new message
BuildHistory(q) ==
    LET previous == AddPrevious(q.conversation, 1, [messages |-> <<>>, raised |-> None]) IN
    IF previous.raised # None
    THEN previous
    ELSE [previous EXCEPT !.messages = Append(@, HumanMessage(q.text))]

\* for message in reversed(result["messages"]): the position of the first
\* message with content, 0 when there is none
RECURSIVE LastWithContent(_, _)
LastWithContent(msgs, i) ==
    IF i = 0 THEN 0
    ELSE IF msgs[i].content # NoContent THEN i
    ELSE LastWithContent(msgs, i - 1)

\* A key of the payload that is set only for a non-empty list
Optional(key, list) == IF list # <<>> THEN key :> list ELSE NoArgs

\* The payload with the counter also in the fallback body
Payload_counted_fallback(result) ==
    LET i == LastWithContent(result.messages, Len(result.messages)) IN
    IF i = 0
    THEN ("response" :> Text("No response")) @@ ("tool_call_count" :> result.tool_call_count)
    ELSE ("response" :> result.messages[i].content)
         @@ Optional("attachments", result.attachments)
         @@ Optional("series_data", result.series_data)
         @@ Optional("sources", result.sources)
         @@ ("tool_call_count" :> result.tool_call_count)

\* The body ask returns for the terminal state of the graph
Payload(result) ==
    LET i == LastWithContent(result.messages, Len(result.messages)) IN
    IF i = 0
    THEN "response" :> Text("No response")
    ELSE ("response" :> result.messages[i].content)
         @@ Optional("attachments", result.attachments)
         @@ Optional("series_data", result.series_data)
         @@ Optional("sources", result.sources)
         @@ ("tool_call_count" :> result.tool_call_count)

\* The body of the except branch
ErrorBody == "response" :> Text("Error: {str(e)}")

\* A handler that returns a dict answers with status 200
Returned200(body) == [status |-> 200, body |-> body]

NotAnswered == [status |-> 0, body |-> NoArgs]

\* The requests: with and without text, without previous conversation, with
\* one of user, assistant and other roles, and with an entry that lacks a key
PriorQuestion == Text("{earlier question}")
PriorAnswer == Text("{earlier answer}")

Conversations ==
    { <<>>,
      <<Turn("system", Text("{system note}")), Turn("user", PriorQuestion),
        Turn("tool", Text("{tool output}")), Turn("assistant", PriorAnswer)>> }

Queries ==
    { Query(text, conversation) : text \in {UserQuestion, NoContent},
                                  conversation \in Conversations }
    \cup { Query(UserQuestion, <<Turn("user", PriorQuestion), Args("content", PriorAnswer)>>),
           Query(UserQuestion, <<Args("role", "assistant")>>) }

\* get_fred_client after the adapters of one call_tool run: the first FRED
\* adapter that runs with FRED_API_KEY set constructs the client, which is
\* cached for the life of the process; a failed construction caches nothing
UsesFredClient == {"fetch_chart", "fetch_recent_data", "analyze_series_correlation"}

get_fred_client(cached, invoked) ==
    IF cached # None THEN cached
    ELSE IF env.fred_api_key /\ \E i \in DOMAIN invoked : invoked[i].adapter \in UsesFredClient
    THEN "FredClient"
    ELSE None

-----------------------------------------------------------------------------
(* The request: ask -> graph.ainvoke -> agent / tools -> ask *)

\* The model invocations of this request
NumModelCalls ==
    Cardinality({i \in DOMAIN messages :
                    /\ i > Len(BuildHistory(request).messages)
                    /\ messages[i].type = "ai"})

\* No function is under examination
NoCall == [fn |-> "none"]

\* load_meetings is not running, the table is empty and nothing is connected to it
LoaderAtRest ==
    /\ fomc_meetings = NoArgs
    /\ loaded = 0
    /\ connections = <<>>

Received(q) ==
    /\ request = q
    /\ pc = "ask"
    /\ messages = <<>>
    /\ tool_call_count = 0
    /\ sources = <<>>
    /\ attachments = <<>>
    /\ series_data = <<>>
    /\ retrieved_docs = <<>>
    /\ queries = <<>>
    /\ invocations = <<>>
    /\ last_act = Locals(0, 0)
    /\ response = NotAnswered
    /\ fred_client = None
    /\ fn_call = NoCall
    /\ returned = <<>>
    /\ LoaderAtRest

Init ==
    /\ env \in Envs
    /\ Received(Query(UserQuestion, <<>>))
    /\ requests = <<>>

\* ask up to graph.ainvoke: the history is built
AskBuildHistory ==
    /\ pc = "ask"
    /\ \E h \in {BuildHistory(request)} :
          IF h.raised # None
          THEN pc' = "error" /\ UNCHANGED messages
          ELSE pc' = "agent" /\ messages' = h.messages
    /\ UNCHANGED <<env, request, tool_call_count, sources, attachments, series_data,
                   retrieved_docs, queries, invocations, last_act, response>>
    /\ UNCHANGED <<fred_client, requests, fn_call, returned, fomc_meetings, loaded, connections>>

\* The text of a model message: a message without tool calls may come without text
ModelContents(tool_calls) == IF tool_calls = <<>> THEN {ModelText, NoContent} ELSE {NoContent}

\* call_model with the response taking the place of the history
CallModel_rewrites_history ==
    /\ pc = "agent"
    /\ NumModelCalls < MaxTurns
    /\ \E tool_calls \in ModelOutputs :
          \E content \in ModelContents(tool_calls) :
              messages' = <<AIMessage(content, tool_calls)>>
    /\ pc' = "route"
    /\ UNCHANGED <<env, request, tool_call_count, sources, attachments, series_data,
                   retrieved_docs, queries, invocations, last_act, response>>
    /\ UNCHANGED <<fred_client, requests, fn_call, returned, fomc_meetings, loaded, connections>>

\* call_model: the model answers with text or with tool calls
CallModel ==
    /\ pc = "agent"
    /\ NumModelCalls < MaxTurns
    /\ \E tool_calls \in ModelOutputs :
          \E content \in ModelContents(tool_calls) :
              messages' = add_messages(messages, <<AIMessage(content, tool_calls)>>)
    /\ pc' = "route"
    /\ UNCHANGED <<env, request, tool_call_count, sources, attachments, series_data,
                   retrieved_docs, queries, invocations, last_act, response>>
    /\ UNCHANGED <<fred_client, requests, fn_call, returned, fomc_meetings, loaded, connections>>

\* call_model raises (the Bedrock call fails)
CallModelFails ==
    /\ pc = "agent"
    /\ pc' = "error"
    /\ UNCHANGED <<env, request, messages, tool_call_count, sources, attachments, series_data,
                   retrieved_docs, queries, invocations, last_act, response>>
    /\ UNCHANGED <<fred_client, requests, fn_call, returned, fomc_meetings, loaded, connections>>

\* should_continue testing for the wrong message class
should_continue_wrong_type(msgs) ==
    IF msgs = <<>> THEN "__end__"
    ELSE LET last == msgs[Len(msgs)] IN
         IF last.type = "human" /\ last.tool_calls # <<>> THEN "tools" ELSE "__end__"

should_continue(msgs) ==
    IF msgs = <<>> THEN "__end__"
    ELSE LET last == msgs[Len(msgs)] IN
         IF last.type = "ai" /\ last.tool_calls # <<>> THEN "tools" ELSE "__end__"

ShouldContinue ==
    /\ pc = "route"
    /\ pc' = IF should_continue(messages) = "tools" THEN "tools" ELSE "end"
    /\ UNCHANGED <<env, request, messages, tool_call_count, sources, attachments, series_data,
                   retrieved_docs, queries, invocations, last_act, response>>
    /\ UNCHANGED <<fred_client, requests, fn_call, returned, fomc_meetings, loaded, connections>>

\* call_tool with its edge leading to the router instead of the model
CallTool_to_router ==
    /\ pc = "tools"
    /\ \E r \in {call_tool(messages, tool_call_count)} :
          /\ invocations' = invocations \o r.invoked
          /\ last_act' = r
          /\ IF r.raised # None
             THEN /\ pc' = "error"
                  /\ UNCHANGED <<messages, tool_call_count, sources, attachments,
                                 series_data, retrieved_docs, queries>>
             ELSE /\ pc' = "route"
                  /\ messages' = add_messages(messages, r.tool_messages)
                  /\ tool_call_count' = r.tool_call_count
                  /\ sources' = accumulate(sources, r.sources)
                  /\ attachments' = accumulate(attachments, r.attachments)
                  /\ series_data' = accumulate(series_data, r.series_data)
                  /\ retrieved_docs' = accumulate(retrieved_docs, r.collected_docs)
                  /\ queries' = accumulate(queries, r.collected_queries)
          /\ fred_client' = get_fred_client(fred_client, r.invoked)
    /\ UNCHANGED <<env, request, response, requests, fn_call, returned, fomc_meetings, loaded, connections>>

\* call_tool and the merge of its updates; an exception that leaves call_tool
\* leaves graph.ainvoke and no update is applied
CallTool ==
    /\ pc = "tools"
    /\ \E r \in {call_tool(messages, tool_call_count)} :
          /\ invocations' = invocations \o r.invoked
          /\ last_act' = r
          /\ IF r.raised # None
             THEN /\ pc' = "error"
                  /\ UNCHANGED <<messages, tool_call_count, sources, attachments,
                                 series_data, retrieved_docs, queries>>
             ELSE /\ pc' = "agent"
                  /\ messages' = add_messages(messages, r.tool_messages)
                  /\ tool_call_count' = r.tool_call_count
                  /\ sources' = accumulate(sources, r.sources)
                  /\ attachments' = accumulate(attachments, r.attachments)
                  /\ series_data' = accumulate(series_data, r.series_data)
                  /\ retrieved_docs' = accumulate(retrieved_docs, r.collected_docs)
                  /\ queries' = accumulate(queries, r.collected_queries)
          /\ fred_client' = get_fred_client(fred_client, r.invoked)
    /\ UNCHANGED <<env, request, response, requests, fn_call, returned, fomc_meetings, loaded, connections>>

\* ask after graph.ainvoke has returned: the terminal state is serialized
AskReturn ==
    /\ pc = "end"
    /\ response' = Returned200(Payload([messages |-> messages,
                                       tool_call_count |-> tool_call_count,
                                       attachments |-> attachments,
                                       series_data |-> series_data,
                                       sources |-> sources]))
    /\ pc' = "done"
    /\ UNCHANGED <<env, request, messages, tool_call_count, sources, attachments, series_data,
                   retrieved_docs, queries, invocations, last_act>>
    /\ UNCHANGED <<fred_client, requests, fn_call, returned, fomc_meetings, loaded, connections>>

\* The exception leaves the handler: the server answers 500
AskExcept_reraise ==
    /\ pc = "error"
    /\ response' = [status |-> 500, body |-> "detail" :> Text("Internal Server Error")]
    /\ pc' = "done"
    /\ UNCHANGED <<env, request, messages, tool_call_count, sources, attachments, series_data,
                   retrieved_docs, queries, invocations, last_act>>
    /\ UNCHANGED <<fred_client, requests, fn_call, returned, fomc_meetings, loaded, connections>>

\* ask's except branch: whatever was raised inside the try is answered in-band
AskExcept ==
    /\ pc = "error"
    /\ response' = Returned200(ErrorBody)
    /\ pc' = "done"
    /\ UNCHANGED <<env, request, messages, tool_call_count, sources, attachments, series_data,
                   retrieved_docs, queries, invocations, last_act>>
    /\ UNCHANGED <<fred_client, requests, fn_call, returned, fomc_meetings, loaded, connections>>

Next ==
    \/ AskBuildHistory \/ CallModel \/ CallModelFails \/ ShouldContinue \/ CallTool
    \/ AskReturn \/ AskExcept

Spec == Init /\ [][Next]_vars

\* Requests of every shape against one environment (the FOMC store is not configured)
InitAsk ==
    /\ env = Env(TRUE, TRUE, FALSE, 1)
    /\ \E q \in Queries : Received(q)
    /\ requests = <<>>

SpecAsk == InitAsk /\ [][Next]_vars

-----------------------------------------------------------------------------
(* Two requests served side by side by the event loop *)

\* The state graph.ainvoke and ask keep for one request
Arrived(q) ==
    [request |-> q, pc |-> "ask", messages |-> <<>>, tool_call_count |-> 0,
     sources |-> <<>>, attachments |-> <<>>, series_data |-> <<>>,
     response |-> NotAnswered]

\* What the model answers in these runs
PeerOutputs == { <<>>, <<Counted>>, <<Retrieval>>, <<ToolCall("fomc_latest_decision", NoArgs, "1")>> }

PeerModelCalls(st) ==
    Cardinality({i \in DOMAIN st.messages :
                    /\ i > Len(BuildHistory(st.request).messages)
                    /\ st.messages[i].type = "ai"})

\* The steps one request can take from its state: ask, call_model,
\* should_continue, call_tool with the merge of its updates, ask's return
Served(st) ==
    CASE st.pc = "ask" ->
            LET h == BuildHistory(st.request) IN
            { IF h.raised # None
              THEN [st EXCEPT !.pc = "error"]
              ELSE [st EXCEPT !.pc = "agent", !.messages = h.messages] }
      [] st.pc = "agent" ->
            { [st EXCEPT !.pc = "error"] }
            \cup IF PeerModelCalls(st) < MaxTurns
                 THEN UNION { { [st EXCEPT !.pc = "route",
                                           !.messages = add_messages(@, <<AIMessage(c, t)>>)] :
                                   c \in ModelContents(t) } : t \in PeerOutputs }
                 ELSE {}
      [] st.pc = "route" ->
            { [st EXCEPT !.pc = IF should_continue(st.messages) = "tools"
                                 THEN "tools" ELSE "end"] }
      [] st.pc = "tools" ->
            LET r == call_tool(st.messages, st.tool_call_count) IN
            { IF r.raised # None
              THEN [st EXCEPT !.pc = "error"]
              ELSE [st EXCEPT !.pc = "agent",
                              !.messages = add_messages(@, r.tool_messages),
                              !.tool_call_count = r.tool_call_count,
                              !.sources = accumulate(@, r.sources),
                              !.attachments = accumulate(@, r.attachments),
                              !.series_data = accumulate(@, r.series_data)] }
      [] st.pc = "end" ->
            { [st EXCEPT !.pc = "done", !.response = Returned200(Payload(st))] }
      [] st.pc = "error" ->
            { [st EXCEPT !.pc = "done", !.response = Returned200(ErrorBody)] }
      [] OTHER -> {}

\* call_tool with its accumulators kept at module level
Scheduled_shared_accumulators(reqs, r, st) ==
    [q \in DOMAIN reqs |->
        IF q = r THEN st
        ELSE [reqs[q] EXCEPT !.sources = st.sources,
                             !.attachments = st.attachments,
                             !.series_data = st.series_data]]

\* One step of request r: its messages, counter and accumulators are locals of
\* its own ask / graph.ainvoke / call_tool activation
Scheduled(reqs, r, st) == [reqs EXCEPT ![r] = st]

\* The adapter invocations of the call_tool run that request state st is about to make
PeerInvoked(st) ==
    IF st.pc = "tools" THEN call_tool(st.messages, st.tool_call_count).invoked ELSE <<>>

\* The event loop resumes one of the requests for one step
Serve ==
    /\ \E r \in DOMAIN requests :
          \E st \in Served(requests[r]) :
              /\ requests' = Scheduled(requests, r, st)
              /\ fred_client' = get_fred_client(fred_client, PeerInvoked(requests[r]))
    /\ UNCHANGED <<env, request, pc, messages, tool_call_count, sources, attachments,
                   series_data, retrieved_docs, queries, invocations, last_act, response,
                   fn_call, returned, fomc_meetings, loaded, connections>>

InitTwo ==
    /\ env \in Envs
    /\ Received(Query(UserQuestion, <<>>))
    /\ \E q \in Queries : requests = <<Arrived(Query(UserQuestion, <<>>)), Arrived(q)>>

NextTwo == Serve

SpecTwo == InitTwo /\ [][NextTwo]_vars

-----------------------------------------------------------------------------
(* services.format_card *)

\* The request side at rest while one function is examined
RequestAtRest ==
    /\ request = Query(UserQuestion, <<>>)
    /\ pc = "ask"
    /\ messages = <<>>
    /\ tool_call_count = 0
    /\ sources = <<>>
    /\ attachments = <<>>
    /\ series_data = <<>>
    /\ retrieved_docs = <<>>
    /\ queries = <<>>
    /\ invocations = <<>>
    /\ last_act = Locals(0, 0)
    /\ response = NotAnswered
    /\ fred_client = None
    /\ requests = <<>>

AtRest ==
    /\ env = Env(TRUE, TRUE, TRUE, 2)
    /\ RequestAtRest
    /\ LoaderAtRest

\* An Optional[dict] that is None; format_card tests it by truthiness
NoDict == NoArgs

\* target_range_low / target_range_high after _coerce; a NULL column is None
Rates == {None, "4.25", "4.50", "4.75"}

\* row_to_dict, with the columns the change block reads
MeetingRow(meeting_id, low, high) ==
    [meeting_id |-> meeting_id, target_range_low |-> low, target_range_high |-> high]

\* The change block with only the lower bounds compared
format_card_low_only(latest, previous) ==
    LET low == latest["target_range_low"]
        high == latest["target_range_high"]
        prev_low == Get(previous, "target_range_low")
        prev_high == Get(previous, "target_range_high")
    IN
    IF low = None \/ high = None
    THEN [raised |-> "TypeError", card |-> NoDict]
    ELSE [raised |-> None,
          card |-> [headline |-> <<low, high>>,
                    changes |-> IF previous # NoDict /\ low # prev_low
                                THEN [target_range |->
                                        [previous |-> [low |-> prev_low, high |-> prev_high],
                                         current |-> [low |-> low, high |-> high]]]
                                ELSE NoDict,
                    meeting_id |-> Get(latest, "meeting_id")]]

\* format_card: the headline formats both bounds with :.2f, which raises
\* TypeError for None; the change block compares the pairs of bounds
format_card(latest, previous) ==
    LET low == latest["target_range_low"]
        high == latest["target_range_high"]
        prev_low == Get(previous, "target_range_low")
        prev_high == Get(previous, "target_range_high")
    IN
    IF low = None \/ high = None
    THEN [raised |-> "TypeError", card |-> NoDict]
    ELSE [raised |-> None,
          card |-> [headline |-> <<low, high>>,
                    changes |-> IF previous # NoDict /\ <<low, high>> # <<prev_low, prev_high>>
                                THEN [target_range |->
                                        [previous |-> [low |-> prev_low, high |-> prev_high],
                                         current |-> [low |-> low, high |-> high]]]
                                ELSE NoDict,
                    meeting_id |-> Get(latest, "meeting_id")]]

InitCard ==
    /\ AtRest
    /\ \E low, high \in Rates :
          \E previous \in {NoDict} \cup {MeetingRow("previous", l, h) : l, h \in Rates} :
              fn_call = [fn |-> "format_card",
                         latest |-> MeetingRow("latest", low, high),
                         previous |-> previous]
    /\ returned = <<>>

FormatCard ==
    /\ fn_call.fn = "format_card"
    /\ returned = <<>>
    /\ returned' = <<format_card(fn_call.latest, fn_call.previous)>>
    /\ UNCHANGED <<env, request, pc, messages, tool_call_count, sources, attachments,
                   series_data, retrieved_docs, queries, invocations, last_act, response,
                   fred_client, requests, fn_call, fomc_meetings, loaded, connections>>

NextCard == FormatCard

SpecCard == InitCard /\ [][NextCard]_vars

-----------------------------------------------------------------------------
(* fred_tool.analyze_series_correlation: from yoy_df to the lag results *)

\* Rows of yoy_df and lags explored
MaxRows == 3
MaxLag == 2

\* Year-over-year changes, in percent
YoYValues == {0, 1, 2}

\* A cell of a pandas column: a number or NaN
Cell(v) == <<v>>
NaN == <<>>

\* Series.shift(lag) moving the values one position too far
shift_one_more(column, lag) ==
    [i \in DOMAIN column |-> IF i > lag + 1 THEN column[i - lag - 1] ELSE NaN]

\* Series.shift(lag): the values move lag positions down the index and the
\* positions left free hold NaN
shift(column, lag) ==
    [i \in DOMAIN column |-> IF i > lag THEN column[i - lag] ELSE NaN]

\* pd.concat({...}, axis=1) of two columns with the same index
concat(first, second) == [i \in DOMAIN first |-> <<first[i], second[i]>>]

\* DataFrame.dropna(): the rows without NaN
HasNoNaN(row) == row[1] # NaN /\ row[2] # NaN
dropna(frame) == SelectSeq(frame, HasNoNaN)

\* The sum over the rows of the product of two columns (column 0 is all ones)
Value(row, c) == IF c = 0 THEN 1 ELSE row[c][1]

RECURSIVE SumOfProducts(_, _, _, _)
SumOfProducts(frame, a, b, i) ==
    IF i > Len(frame) THEN 0
    ELSE Value(frame[i], a) * Value(frame[i], b) + SumOfProducts(frame, a, b, i + 1)

\* Series.corr: Pearson's r of the two columns, kept as the integers that
\* determine it, r = num / sqrt(dx * dy); NaN for fewer than two rows and for
\* a column without variance
NaNCorrelation == [nan |-> TRUE, num |-> 0, dx |-> 0, dy |-> 0]

corr(frame) ==
    LET n == SumOfProducts(frame, 0, 0, 1)
        sx == SumOfProducts(frame, 1, 0, 1)
        sy == SumOfProducts(frame, 2, 0, 1)
        dx == n * SumOfProducts(frame, 1, 1, 1) - sx * sx
        dy == n * SumOfProducts(frame, 2, 2, 1) - sy * sy
    IN
    IF n < 2 \/ dx = 0 \/ dy = 0
    THEN NaNCorrelation
    ELSE [nan |-> FALSE, num |-> n * SumOfProducts(frame, 1, 2, 1) - sx * sy,
          dx |-> dx, dy |-> dy]

Column(frame, c) == [i \in DOMAIN frame |-> frame[i][c]]

\* The body of for lag in range(0, max_lag + 1)
RECURSIVE LagScan(_, _, _, _)
LagScan(yoy_df, lag, max_lag, lag_results) ==
    IF lag > max_lag THEN lag_results
    ELSE LET shifted == shift(Column(yoy_df, 1), lag)
             aligned == dropna(concat(shifted, Column(yoy_df, 2)))
         IN
         LagScan(yoy_df, lag + 1, max_lag,
                 IF aligned = <<>>
                 THEN lag_results
                 ELSE Append(lag_results, [lag_months |-> lag, correlation |-> corr(aligned)]))

\* Python's a > b on two correlations; every comparison with NaN is false
Sign(v) == IF v > 0 THEN 1 ELSE IF v < 0 THEN -1 ELSE 0

Greater(a, b) ==
    /\ ~a.nan /\ ~b.nan
    /\ Sign(a.num) * a.num * a.num * b.dx * b.dy > Sign(b.num) * b.num * b.num * a.dx * a.dy

\* max(lag_results, key=...) and min(lag_results, key=...): the entry kept is
\* replaced only by a later entry that compares strictly greater (smaller)
RECURSIVE Extreme(_, _, _, _)
Extreme(lag_results, i, kept, wants_max) ==
    IF i > Len(lag_results) THEN kept
    ELSE Extreme(lag_results, i + 1,
                 IF wants_max
                 THEN IF Greater(lag_results[i].correlation, kept.correlation)
                      THEN lag_results[i] ELSE kept
                 ELSE IF Greater(kept.correlation, lag_results[i].correlation)
                      THEN lag_results[i] ELSE kept,
                 wants_max)

\* The scan up to max_lag_months as it is given
correlation_analysis_unclamped(yoy_df, max_lag_months) ==
    IF yoy_df = <<>>
    THEN [analysis |-> NoDict, lag_results |-> <<>>]
    ELSE LET max_lag == max_lag_months
             lag_results == LagScan(yoy_df, 0, max_lag, <<>>)
         IN
         [analysis |->
            [yoy_correlation |-> corr(yoy_df),
             best_positive_lag |->
                IF lag_results # <<>> THEN Extreme(lag_results, 2, lag_results[1], TRUE)
                ELSE NoDict,
             most_negative_lag |->
                IF lag_results # <<>> THEN Extreme(lag_results, 2, lag_results[1], FALSE)
                ELSE NoDict],
          lag_results |-> lag_results]

\* analyze_series_correlation once yoy_df is there
correlation_analysis(yoy_df, max_lag_months) ==
    IF yoy_df = <<>>
    THEN [analysis |-> NoDict, lag_results |-> <<>>]
    ELSE LET max_lag == IF max_lag_months > 0 THEN max_lag_months ELSE 0
             lag_results == LagScan(yoy_df, 0, max_lag, <<>>)
         IN
         [analysis |->
            [yoy_correlation |-> corr(yoy_df),
             best_positive_lag |->
                IF lag_results # <<>> THEN Extreme(lag_results, 2, lag_results[1], TRUE)
                ELSE NoDict,
             most_negative_lag |->
                IF lag_results # <<>> THEN Extreme(lag_results, 2, lag_results[1], FALSE)
                ELSE NoDict],
          lag_results |-> lag_results]

\* The frames of at most n rows without NaN
RECURSIVE Frames(_)
Frames(n) ==
    IF n = 0 THEN {<<>>}
    ELSE LET shorter == Frames(n - 1) IN
         shorter \cup { Append(f, <<Cell(x), Cell(y)>>) :
                           f \in {g \in shorter : Len(g) = n - 1},
                           x \in YoYValues, y \in YoYValues }

InitCorrelation ==
    /\ AtRest
    /\ \E yoy_df \in Frames(MaxRows) :
          \E max_lag_months \in (-1)..MaxLag :
              fn_call = [fn |-> "analyze_series_correlation",
                         yoy_df |-> yoy_df, max_lag_months |-> max_lag_months]
    /\ returned = <<>>

AnalyzeSeriesCorrelation ==
    /\ fn_call.fn = "analyze_series_correlation"
    /\ returned = <<>>
    /\ returned' = <<correlation_analysis(fn_call.yoy_df, fn_call.max_lag_months)>>
    /\ UNCHANGED <<env, request, pc, messages, tool_call_count, sources, attachments,
                   series_data, retrieved_docs, queries, invocations, last_act, response,
                   fred_client, requests, fn_call, fomc_meetings, loaded, connections>>

NextCorrelation == AnalyzeSeriesCorrelation

SpecCorrelation == InitCorrelation /\ [][NextCorrelation]_vars

-----------------------------------------------------------------------------
(* fred_tool.analyze_series_correlation: from the two series to yoy_df *)

\* pct_change(12)
YoYPeriods == 12

Observation(date, value) == [date |-> date, value |-> value]

\* The whole series, whatever the window
InWindow_unbounded(series, start_date, end_date) ==
    series

\* series.loc[(series.index >= start_date) & (series.index <= end_date)]
InWindow(series, start_date, end_date) ==
    LET Inside(o) == o.date >= start_date /\ o.date <= end_date IN
    SelectSeq(series, Inside)

\* series.pct_change(periods) * 100: the change against the value `periods`
\* positions earlier, NaN for the first `periods` positions (the values used
\* here divide without remainder)
pct_change(series, periods) ==
    [i \in DOMAIN series |->
        Observation(series[i].date,
            IF i > periods
            THEN Cell(((series[i].value - series[i - periods].value) * 100)
                        \div series[i - periods].value)
            ELSE NaN)]

\* The dates of a set in ascending order
RECURSIVE Ascending(_)
Ascending(dates) ==
    IF dates = {} THEN <<>>
    ELSE LET first == CHOOSE d \in dates : \A e \in dates : d <= e IN
         <<first>> \o Ascending(dates \ {first})

At(series, date) ==
    IF \E i \in DOMAIN series : series[i].date = date
    THEN series[CHOOSE i \in DOMAIN series : series[i].date = date].value
    ELSE NaN

\* pd.concat({...}, axis=1) of two series: one row per date of either index,
\* NaN where a series has no observation
concat_on_index(first, second) ==
    LET index == Ascending({first[i].date : i \in DOMAIN first}
                           \cup {second[i].date : i \in DOMAIN second})
    IN [i \in DOMAIN index |-> <<At(first, index[i]), At(second, index[i])>>]

\* analyze_series_correlation with the series it fetched and its lag results
analyze_series_correlation_result(leading_series_id, lagging_series_id, leading, lagging, start_date, end_date, max_lag_months) ==
    LET exc == IF FredClientError(leading_series_id) # None
               THEN FredClientError(leading_series_id)
               ELSE FredClientError(lagging_series_id)
        yoy_df == dropna(concat_on_index(
                     pct_change(InWindow(leading, start_date, end_date), YoYPeriods),
                     pct_change(InWindow(lagging, start_date, end_date), YoYPeriods)))
    IN
    IF exc # None
    THEN [payload |-> ("message" :> Text("Failed to compute series correlation."))
                      @@ ("analysis" :> NoDict) @@ ("error" :> Text(exc)),
          fetched |-> <<>>, scanned |-> FALSE, lag_results |-> <<>>]
    ELSE IF ~is_monthly(leading_series_id) \/ ~is_monthly(lagging_series_id)
    THEN [payload |-> ("message" :> Text("Correlation helper currently supports monthly series only."))
                      @@ ("analysis" :> NoDict) @@ ("error" :> Text("non_monthly_series")),
          fetched |-> <<>>, scanned |-> FALSE, lag_results |-> <<>>]
    ELSE IF yoy_df = <<>>
    THEN [payload |-> ("message" :> Text("Insufficient overlapping data to compute year-over-year correlation"))
                      @@ ("analysis" :> NoDict),
          fetched |-> <<leading_series_id, lagging_series_id>>,
          scanned |-> FALSE, lag_results |-> <<>>]
    ELSE LET computed == correlation_analysis(yoy_df, max_lag_months) IN
         [payload |-> ("message" :> Text("Computed correlations between {leading} (leading) and {lagging} (lagging)"))
                      @@ ("analysis" :> computed.analysis)
                      @@ ("analysis_guidance" :> Text("Interpretation hints: ...")),
          fetched |-> <<leading_series_id, lagging_series_id>>,
          scanned |-> TRUE, lag_results |-> computed.lag_results]

\* The values of a series at its positions: a first year at 100, then flat,
\* alternating, or cycling a little above it
Pattern(p, i) ==
    CASE p = 1 -> 100
      [] p = 2 -> IF i <= YoYPeriods THEN 100 ELSE IF i % 2 = 0 THEN 101 ELSE 102
      [] OTHER -> IF i <= YoYPeriods THEN 100
                  ELSE IF i % 3 = 1 THEN 100 ELSE IF i % 3 = 2 THEN 102 ELSE 101

\* Monthly series that start in month 1 or 7 and are a year long, a year and
\* a month, or a year and MaxRows months
MonthlyData ==
    { [i \in 1..n |-> Observation(first + i - 1, Pattern(p, i))] :
        first \in {1, YoYPeriods \div 2 + 1},
        n \in {YoYPeriods, YoYPeriods + 1, YoYPeriods + MaxRows},
        p \in 1..3 }

InitSeriesCorrelation ==
    /\ env \in {Env(TRUE, TRUE, TRUE, 2), Env(TRUE, FALSE, TRUE, 2)}
    /\ RequestAtRest
    /\ LoaderAtRest
    /\ \E ids \in { <<"M2SL", "CPIAUCSL">>, <<"M2SL", "GDP">>, <<"GDP", "CPIAUCSL">>,
                     <<"XXXX", "CPIAUCSL">> },
          window \in { <<1, 3 * YoYPeriods>>, <<2, YoYPeriods + 2>> } :
          \E leading \in MonthlyData, lagging \in MonthlyData :
              \E max_lag_months \in (-1)..MaxLag :
                  fn_call = [fn |-> "analyze_series_correlation",
                             leading_series_id |-> ids[1], lagging_series_id |-> ids[2],
                             leading |-> leading, lagging |-> lagging,
                             start_date |-> window[1], end_date |-> window[2],
                             max_lag_months |-> max_lag_months]
    /\ returned = <<>>

AnalyzeSeries ==
    /\ fn_call.fn = "analyze_series_correlation"
    /\ returned = <<>>
    /\ returned' = <<analyze_series_correlation_result(
                        fn_call.leading_series_id, fn_call.lagging_series_id,
                        fn_call.leading, fn_call.lagging,
                        fn_call.start_date, fn_call.end_date, fn_call.max_lag_months)>>
    /\ UNCHANGED <<env, request, pc, messages, tool_call_count, sources, attachments,
                   series_data, retrieved_docs, queries, invocations, last_act, response,
                   fred_client, requests, fn_call, fomc_meetings, loaded, connections>>

NextSeriesCorrelation == AnalyzeSeries

SpecSeriesCorrelation == InitSeriesCorrelation /\ [][NextSeriesCorrelation]_vars

-----------------------------------------------------------------------------
(* scripts/fraser/extractor/load_meetings.py *)

MaxFiles == 2

\* One extracted meeting: the dict read from a .json file, and a row of the
\* table; revision stands for the values of the eight policy and vote columns
Meeting(meeting_id, meeting_date, revision) ==
    [meeting_id |-> meeting_id,
     meeting_date |-> meeting_date,
     target_range_low |-> IF revision = 1 THEN "4.25" ELSE "4.50",
     target_range_high |-> IF revision = 1 THEN "4.50" ELSE "4.75",
     ioer |-> IF revision = 1 THEN "4.40" ELSE "4.65",
     on_rrp |-> IF revision = 1 THEN "4.30" ELSE "4.55",
     repo_min_rate |-> IF revision = 1 THEN "4.50" ELSE "4.75",
     primary_credit_rate |-> IF revision = 1 THEN "4.50" ELSE "4.75",
     votes_for |-> IF revision = 1 THEN 12 ELSE 11,
     votes_against |-> IF revision = 1 THEN 0 ELSE 1]

Meetings ==
    { Meeting(meeting_id, meeting_date, revision) :
        meeting_id \in {"2023-01", "2023-03"},
        meeting_date \in {"2023-02-01", "2023-03-22"},
        revision \in 1..2 }

\* INSERT ... ON CONFLICT (meeting_id) DO UPDATE SET: a new meeting_id adds the
\* row, an existing one has the columns of the SET list overwritten
upsert(table, data) ==
    IF data.meeting_id \in DOMAIN table
    THEN [table EXCEPT ![data.meeting_id] =
            [@ EXCEPT !.target_range_low = data.target_range_low,
                      !.target_range_high = data.target_range_high,
                      !.ioer = data.ioer,
                      !.on_rrp = data.on_rrp,
                      !.repo_min_rate = data.repo_min_rate,
                      !.primary_credit_rate = data.primary_credit_rate,
                      !.votes_for = data.votes_for,
                      !.votes_against = data.votes_against]]
    ELSE (data.meeting_id :> data) @@ table

\* sorted(MEETINGS_DIR.glob("*.json")): at least one file, at most MaxFiles
RECURSIVE JsonFiles(_)
JsonFiles(n) ==
    IF n = 0 THEN {<<>>}
    ELSE LET shorter == JsonFiles(n - 1) IN
         shorter \cup { Append(files, data) :
                           files \in {f \in shorter : Len(f) = n - 1}, data \in Meetings }

\* The table an earlier run has left: nothing, or one meeting
StoredTables ==
    {NoArgs} \cup { (m.meeting_id :> m) : m \in {Meeting("2023-01", "2023-02-01", 1),
                                                  Meeting("2023-03", "2023-03-22", 2)} }

InitMeetings ==
    /\ env = Env(TRUE, TRUE, TRUE, 2)
    /\ RequestAtRest
    /\ \E json_files \in JsonFiles(MaxFiles) \ {<<>>} :
          fn_call = [fn |-> "load_meetings", json_files |-> json_files]
    /\ returned = <<>>
    /\ fomc_meetings \in StoredTables
    /\ loaded = 0
    /\ connections = <<>>

\* One turn of for path in json_files
Upsert ==
    /\ fn_call.fn = "load_meetings"
    /\ loaded < Len(fn_call.json_files)
    /\ fomc_meetings' = upsert(fomc_meetings, fn_call.json_files[loaded + 1])
    /\ loaded' = loaded + 1
    /\ UNCHANGED <<env, request, pc, messages, tool_call_count, sources, attachments,
                   series_data, retrieved_docs, queries, invocations, last_act, response,
                   fred_client, requests, fn_call, returned, connections>>

\* conn.commit() after the loop, and the script ends
Commit ==
    /\ fn_call.fn = "load_meetings"
    /\ loaded = Len(fn_call.json_files)
    /\ returned = <<>>
    /\ returned' = <<"Done.">>
    /\ UNCHANGED <<env, request, pc, messages, tool_call_count, sources, attachments,
                   series_data, retrieved_docs, queries, invocations, last_act, response,
                   fred_client, requests, fn_call, fomc_meetings, loaded, connections>>

NextMeetings ==
    \/ Upsert
    \/ Commit

SpecMeetings == InitMeetings /\ [][NextMeetings]_vars

-----------------------------------------------------------------------------
(* graph.should_continue on any history *)

MaxHistory == 2

\* Messages of every class, with and without text, with and without tool calls
RoutedMessages ==
    { HumanMessage(UserQuestion),
      ToolMessage(LimitContent, "1"),
      ToolMessage(LimitContent, ""),
      AIMessage(ModelText, <<>>),
      AIMessage(NoContent, <<>>),
      AIMessage(NoContent, <<Counted>>),
      AIMessage(ModelText, <<Unknown>>),
      AIMessage(NoContent, <<Retrieval, NoArgument>>) }

RECURSIVE Histories(_)
Histories(n) ==
    IF n = 0 THEN {<<>>}
    ELSE LET shorter == Histories(n - 1) IN
         shorter \cup { Append(h, m) : h \in {g \in shorter : Len(g) = n - 1},
                                       m \in RoutedMessages }

InitRoute ==
    /\ AtRest
    /\ \E history \in Histories(MaxHistory) :
          fn_call = [fn |-> "should_continue", messages |-> history]
    /\ returned = <<>>

Route ==
    /\ fn_call.fn = "should_continue"
    /\ returned = <<>>
    /\ returned' = <<should_continue(fn_call.messages)>>
    /\ UNCHANGED <<env, request, pc, messages, tool_call_count, sources, attachments,
                   series_data, retrieved_docs, queries, invocations, last_act, response,
                   fred_client, requests, fn_call, fomc_meetings, loaded, connections>>

NextRoute == Route

SpecRoute == InitRoute /\ [][NextRoute]_vars

-----------------------------------------------------------------------------
(* graph.call_tool on one assistant message *)

MaxCalls == 3

\* Calls that differ in tool, argument and outcome
CallPool ==
    { Counted, Retrieval, Unknown, NoArgument,
      ToolCall("fred_recent_data", Args("series_id", "M2SL"), "1"),
      ToolCall("fomc_latest_decision", NoArgs, "1") }

\* The tool calls of one assistant message, with the ids of their positions
RECURSIVE Batches(_)
Batches(n) ==
    IF n = 0 THEN {<<>>}
    ELSE LET shorter == Batches(n - 1) IN
         shorter \cup { WithIds(Append(b, c)) : b \in {g \in shorter : Len(g) = n - 1},
                                                c \in CallPool }

InitCallTool ==
    /\ env \in Envs
    /\ RequestAtRest
    /\ LoaderAtRest
    /\ \E tool_calls \in Batches(MaxCalls) \ {<<>>},
          count \in {0, MAX_TOOL_CALLS - 1, MAX_TOOL_CALLS} :
          fn_call = [fn |-> "call_tool",
                     messages |-> <<HumanMessage(UserQuestion),
                                    AIMessage(NoContent, tool_calls)>>,
                     tool_call_count |-> count]
    /\ returned = <<>>

RunCallTool ==
    /\ fn_call.fn = "call_tool"
    /\ returned = <<>>
    /\ returned' = <<call_tool(fn_call.messages, fn_call.tool_call_count)>>
    /\ UNCHANGED <<env, request, pc, messages, tool_call_count, sources, attachments,
                   series_data, retrieved_docs, queries, invocations, last_act, response,
                   fred_client, requests, fn_call, fomc_meetings, loaded, connections>>

NextCallTool == RunCallTool

SpecCallTool == InitCallTool /\ [][NextCallTool]_vars

-----------------------------------------------------------------------------
(* graph.call_tool: the fred_series_correlation branch down to the lag scan *)

\* max_lag_months: int = 48
DefaultMaxLag == 48

\* The month a date lies in, counted from January 1970
MonthOf(date) ==
    CASE date = "1970-01-01" -> 1
      [] date = "1970-02-01" -> 2
      [] date = "1971-02-28" -> 14
      [] date = "1979-12-31" -> 120

\* The branch and the adapter behind it: the four arguments of the branch are
\* handed over, max_lag_months keeps the default of the adapter's signature
fred_series_correlation_scan(args, leading, lagging) ==
    LET leading_series_id == GetDefault(args, "leading_series_id", "M2SL")
        lagging_series_id == GetDefault(args, "lagging_series_id", "CPIAUCSL")
        start_date == GetDefault(args, "start_date", "1970-01-01")
        end_date == GetDefault(args, "end_date", "1979-12-31")
    IN
    analyze_series_correlation_result(leading_series_id, lagging_series_id, leading, lagging,
                                      MonthOf(start_date), MonthOf(end_date), DefaultMaxLag)

\* What the model may put into the call: nothing, a window, a maximum lag
CorrelationArgs ==
    {NoArgs, Args("start_date", "1970-02-01") @@ Args("end_date", "1971-02-28")}
    \cup { Args("max_lag_months", n) : n \in 0..MaxLag }
    \cup { Args("max_lag_months", n) @@ Args("lagging_series_id", "GDP") : n \in 0..MaxLag }

InitCorrelationCall ==
    /\ AtRest
    /\ \E args \in CorrelationArgs :
          \E leading \in MonthlyData, lagging \in MonthlyData :
              fn_call = [fn |-> "fred_series_correlation", args |-> args,
                         leading |-> leading, lagging |-> lagging]
    /\ returned = <<>>

CorrelationCall ==
    /\ fn_call.fn = "fred_series_correlation"
    /\ returned = <<>>
    /\ returned' = <<fred_series_correlation_scan(fn_call.args, fn_call.leading,
                                                  fn_call.lagging)>>
    /\ UNCHANGED <<env, request, pc, messages, tool_call_count, sources, attachments,
                   series_data, retrieved_docs, queries, invocations, last_act, response,
                   fred_client, requests, fn_call, fomc_meetings, loaded, connections>>

NextCorrelationCall == CorrelationCall

SpecCorrelationCall == InitCorrelationCall /\ [][NextCorrelationCall]_vars

-----------------------------------------------------------------------------
(* retrieval_graph/fred_tool.py: FredClient.get_series_snapshot, fetch_recent_data *)

MaxObservations == 14

\* Timestamp.strftime("%Y-%m-%d") of the index entry of a monthly observation,
\* months counted from January 2024: the year, the month and the day of the text
strftime(date) == <<2024 + ((date - 1) \div 12), ((date - 1) % 12) + 1, 1>>

Reversed(list) == [i \in 1..Len(list) |-> list[Len(list) + 1 - i]]

\* for date, value in zip(data.index, data.values): NaN skipped, the date
\* formatted, the value made a float
FilteredObservations(data) ==
    LET kept == SelectSeq(data, LAMBDA row : row.value # NaN) IN
    [i \in 1..Len(kept) |-> Observation(strftime(kept[i].date), kept[i].value[1])]

\* The snapshot without observations.reverse()
get_series_snapshot_newest_first(series_id, info, data) ==
    [series_id |-> series_id,
     title |-> GetDefault(info, "title", series_id),
     units |-> GetDefault(info, "units", ""),
     frequency |-> GetDefault(info, "frequency", ""),
     observations |-> FilteredObservations(data),
     notes |-> Get(info, "notes")]

\* FredClient.get_series_snapshot with include_observations=True; data is what
\* fredapi returns for sort_order="desc"
get_series_snapshot(series_id, info, data) ==
    [series_id |-> series_id,
     title |-> GetDefault(info, "title", series_id),
     units |-> GetDefault(info, "units", ""),
     frequency |-> GetDefault(info, "frequency", ""),
     observations |-> Reversed(FilteredObservations(data)),
     notes |-> Get(info, "notes")]

\* list[-count:] as Python slices it: -0 is 0, and the start is clamped to the list
SeriesSnapshot_latest(observations, count) ==
    LET n == Len(observations)
        start == IF count > 0 THEN (IF n - count > 0 THEN n - count ELSE 0)
                 ELSE IF -count > n THEN n ELSE -count
    IN SubSeq(observations, start + 1, n)

build_series_datablock(snapshot, latest_points) ==
    [series_id |-> snapshot.series_id,
     title |-> snapshot.title,
     units |-> snapshot.units,
     frequency |-> snapshot.frequency,
     notes |-> snapshot.notes,
     points |-> SeriesSnapshot_latest(snapshot.observations, latest_points)]

\* fetch_recent_data with everything it calls: the payload, and the snapshot it
\* was built from (none when the client raised)
fetch_recent_data_result(series_id, info, data, latest_points) ==
    LET exc == FredClientError(series_id)
        snapshot == get_series_snapshot(series_id, info, data)
        datablock == build_series_datablock(snapshot, latest_points)
    IN
    IF exc # None
    THEN [payload |-> ("message" :> Content("Failed to fetch recent data for '{series_id}': {exc}",
                                            series_id, exc, <<>>))
                      @@ ("series_data" :> <<>>) @@ ("error" :> exc),
          snapshot |-> NoDict]
    ELSE [payload |-> ("message" :> Content("Retrieved {n} recent data points for {title} ({series_id}).",
                                            series_id, "", <<Len(datablock.points)>>))
                      @@ ("series_data" :> <<datablock>>),
          snapshot |-> snapshot]

\* get_series_info: the metadata of a series, with or without its optional keys
SeriesInfos ==
    {NoArgs,
     ("title" :> "Consumer Price Index") @@ ("units" :> "Index 1982-1984=100")
         @@ ("frequency" :> "Monthly") @@ ("notes" :> "Seasonally adjusted")}

\* get_series(series_id, limit=limit, sort_order="desc"): the newest n months
\* first, ending in December 2024 or in January 2025, with no gap in the
\* values, or a missing value every third month
DescendingData ==
    { [i \in 1..n |-> [date |-> newest + 1 - i,
                       value |-> IF gap < 3 /\ i % 3 = gap THEN NaN ELSE Cell(100 + (i % 3))]] :
        n \in 0..MaxObservations, newest \in {MaxObservations + 1, MaxObservations + 2},
        gap \in 0..3 }

InitRecentData ==
    /\ env \in {Env(TRUE, TRUE, TRUE, 2), Env(FALSE, TRUE, TRUE, 0)}
    /\ RequestAtRest
    /\ LoaderAtRest
    /\ \E series_id \in {"CPIAUCSL", "XXXX"}, info \in SeriesInfos, data \in DescendingData :
          \/ fn_call = [fn |-> "get_series_snapshot", series_id |-> series_id,
                        info |-> info, data |-> data]
          \/ \E latest_points \in {0, 1, 2, 12} :
                fn_call = [fn |-> "fetch_recent_data", series_id |-> series_id,
                           info |-> info, data |-> data, latest_points |-> latest_points]
    /\ returned = <<>>

\* client.get_series_snapshot(series_id) on a client that exists, for a series
\* the service knows
GetSeriesSnapshot ==
    /\ fn_call.fn = "get_series_snapshot"
    /\ FredClientError(fn_call.series_id) = None
    /\ returned = <<>>
    /\ returned' = <<get_series_snapshot(fn_call.series_id, fn_call.info, fn_call.data)>>
    /\ UNCHANGED <<env, request, pc, messages, tool_call_count, sources, attachments,
                   series_data, retrieved_docs, queries, invocations, last_act, response,
                   fred_client, requests, fn_call, fomc_meetings, loaded, connections>>

FetchRecentData ==
    /\ fn_call.fn = "fetch_recent_data"
    /\ returned = <<>>
    /\ returned' = <<fetch_recent_data_result(fn_call.series_id, fn_call.info, fn_call.data,
                                              fn_call.latest_points)>>
    /\ UNCHANGED <<env, request, pc, messages, tool_call_count, sources, attachments,
                   series_data, retrieved_docs, queries, invocations, last_act, response,
                   fred_client, requests, fn_call, fomc_meetings, loaded, connections>>

NextRecentData == GetSeriesSnapshot \/ FetchRecentData

SpecRecentData == InitRecentData /\ [][NextRecentData]_vars

-----------------------------------------------------------------------------
(* retrieval_graph/fred_tool.py: fetch_series_release_schedule *)

MaxReleaseDates == 3

\* A str is the sequence of its characters
Digits == <<"0", "1", "2", "3", "4", "5", "6", "7", "8", "9">>

\* text[:n]
Prefix(text, n) == SubSeq(text, 1, IF Len(text) < n THEN Len(text) ELSE n)

\* str.isdigit(): at least one character, and all of them digits
isdigit(text) == text # <<>> /\ \A i \in DOMAIN text : \E d \in DOMAIN Digits : Digits[d] = text[i]

\* int(text) of a text of digits
RECURSIVE int(_)
int(text) ==
    IF text = <<>> THEN 0
    ELSE int(SubSeq(text, 1, Len(text) - 1)) * 10
             + (CHOOSE d \in 0..9 : Digits[d + 1] = text[Len(text)])

\* str(n) of a number that is not negative
RECURSIVE str(_)
str(n) == IF n < 10 THEN <<Digits[n + 1]>> ELSE str(n \div 10) \o <<Digits[(n % 10) + 1]>>

\* str.startswith(prefix)
startswith(text, prefix) ==
    Len(text) >= Len(prefix) /\ SubSeq(text, 1, Len(prefix)) = prefix

\* isinstance(item.get("date"), str): the items of the model carry a text or no date
HasDateText(item) == "date" \in DOMAIN item

\* [int(item["date"][:4]) for item in dates if ... isdigit()]
year_candidates(dates) ==
    LET parseable == SelectSeq(dates, LAMBDA item :
                         HasDateText(item) /\ isdigit(Prefix(item["date"], 4)))
    IN [i \in DOMAIN parseable |-> int(Prefix(parseable[i]["date"], 4))]

\* max(year_candidates)
MaxOf(numbers) ==
    CHOOSE n \in {numbers[i] : i \in DOMAIN numbers} :
        \A i \in DOMAIN numbers : n >= numbers[i]

\* The schedule with no filter on the year
filtered_dates_unfiltered(dates) ==
    dates

\* latest_year and the list comprehension that keeps the items of that year
filtered_dates(dates) ==
    IF year_candidates(dates) = <<>> THEN dates
    ELSE SelectSeq(dates, LAMBDA item :
             HasDateText(item) /\ startswith(item["date"], str(MaxOf(year_candidates(dates)))))

\* The early return sent after the dates of the release were requested all the same
no_release_found_after_dates(series_id) ==
    [raised |-> None,
     payload |-> ("message" :> Content("No release found for series '{series_id}'.",
                                       series_id, "", <<>>))
                 @@ ("release_schedule" :> <<>>)
                 @@ ("error" :> "No release metadata for {series_id}"),
     calls |-> <<"fred/series/release", "fred/release/dates">>]

\* if not releases: the early return, with one request sent
no_release_found(series_id) ==
    [raised |-> None,
     payload |-> ("message" :> Content("No release found for series '{series_id}'.",
                                       series_id, "", <<>>))
                 @@ ("release_schedule" :> <<>>)
                 @@ ("error" :> "No release metadata for {series_id}"),
     calls |-> <<"fred/series/release">>]

\* fetch_series_release_schedule on the answers of the two endpoints: what it
\* returns or raises, and the requests it has sent, in order
fetch_series_release_schedule_result(series_id, releases, release_dates) ==
    IF ~env.fred_api_key
    THEN [raised |-> "RuntimeError: FRED_API_KEY is required to call series release tool.",
          payload |-> NoDict, calls |-> <<>>]
    ELSE IF HttpError # None \/ series_id \notin KnownSeries
    THEN [raised |-> None,
          payload |-> ("message" :> Content("Failed to resolve release for '{series_id}': {exc}",
                                            series_id, "", <<>>))
                      @@ ("release_schedule" :> <<>>)
                      @@ ("error" :> IF HttpError # None THEN HttpError ELSE "HTTPError 400"),
          calls |-> <<"fred/series/release">>]
    ELSE IF releases = <<>> THEN no_release_found(series_id)
    ELSE IF release_dates.raised # None
    THEN [raised |-> None,
          payload |-> ("message" :> Content("Failed to resolve release for '{series_id}': {exc}",
                                            series_id, "", <<>>))
                      @@ ("release_schedule" :> <<>>)
                      @@ ("error" :> release_dates.raised),
          calls |-> <<"fred/series/release", "fred/release/dates">>]
    ELSE [raised |-> None,
          payload |-> ("message" :> Content("Series {series_id} belongs to release {release_name} ({release_id}).",
                                            series_id, "", <<Len(filtered_dates(release_dates.data))>>))
                      @@ ("release_schedule" :> filtered_dates(release_dates.data))
                      @@ ("release_info" :> [id |-> GetDefault(releases[1], "id", 0),
                                             name |-> GetDefault(releases[1], "name", "Unknown release")])
                      @@ ("series_id" :> series_id),
          calls |-> <<"fred/series/release", "fred/release/dates">>]

\* One entry of release_dates: the release and its date, a text or absent
ReleaseDate(n, date) == ("release_id" :> n) @@ date

ReleaseDateItems ==
    { ReleaseDate(1, "date" :> <<"2", "0", "2", "4", "-", "1", "2", "-", "1", "1">>),
      ReleaseDate(2, "date" :> <<"2", "0", "2", "5", "-", "0", "1", "-", "1", "5">>),
      ReleaseDate(3, "date" :> <<"2", "0", "2", "5", "-", "0", "2", "-", "1", "2">>),
      ReleaseDate(4, "date" :> <<"N", "/", "A">>),
      ReleaseDate(5, NoArgs) }

\* schedule_data.get("release_dates", []): up to n entries in any order
RECURSIVE ReleaseDateLists(_)
ReleaseDateLists(n) ==
    IF n = 0 THEN {<<>>}
    ELSE LET shorter == ReleaseDateLists(n - 1) IN
         shorter \cup { Append(dates, item) :
                           dates \in {d \in shorter : Len(d) = n - 1}, item \in ReleaseDateItems }

InitReleaseSchedule ==
    /\ env \in {Env(TRUE, TRUE, TRUE, 2), Env(FALSE, TRUE, TRUE, 0), Env(TRUE, FALSE, TRUE, 2)}
    /\ RequestAtRest
    /\ LoaderAtRest
    /\ \E series_id \in {"CPIAUCSL", "XXXX"},
          releases \in {<<>>, <<("id" :> 10) @@ ("name" :> "Consumer Price Index")>>},
          release_dates \in {Raised("HTTPError 500")}
                            \cup { Returned(NoContent, dates, None) :
                                      dates \in ReleaseDateLists(MaxReleaseDates) } :
          fn_call = [fn |-> "fetch_series_release_schedule", series_id |-> series_id,
                     releases |-> releases, release_dates |-> release_dates]
    /\ returned = <<>>

FetchSeriesReleaseSchedule ==
    /\ fn_call.fn = "fetch_series_release_schedule"
    /\ returned = <<>>
    /\ returned' = <<fetch_series_release_schedule_result(fn_call.series_id, fn_call.releases,
                                                          fn_call.release_dates)>>
    /\ UNCHANGED <<env, request, pc, messages, tool_call_count, sources, attachments,
                   series_data, retrieved_docs, queries, invocations, last_act, response,
                   fred_client, requests, fn_call, fomc_meetings, loaded, connections>>

NextReleaseSchedule == FetchSeriesReleaseSchedule

SpecReleaseSchedule == InitReleaseSchedule /\ [][NextReleaseSchedule]_vars

-----------------------------------------------------------------------------
(* retrieval_graph/services.py: fetch_latest, step by step *)

MaxStoredMeetings == 3

\* A DATE column holds a year, a month and a day
IsLater(a, b) ==
    \/ a[1] > b[1]
    \/ a[1] = b[1] /\ a[2] > b[2]
    \/ a[1] = b[1] /\ a[2] = b[2] /\ a[3] > b[3]

\* date.isoformat(): YYYY-MM-DD, month and day padded to two digits
isoformat(d) ==
    LET two(n) == IF n < 10 THEN <<"0">> \o str(n) ELSE str(n) IN
    str(d[1]) \o <<"-">> \o two(d[2]) \o <<"-">> \o two(d[3])

\* row_to_dict: _coerce leaves the columns of the model as they are
row_to_dict(row) == [row EXCEPT !.meeting_date = isoformat(row.meeting_date)]

\* The rows in ascending order of meeting_date
OrderedByMeetingDate_ascending(table) ==
    { rows \in [1..Cardinality(DOMAIN table) -> {table[id] : id \in DOMAIN table}] :
        /\ \A i, j \in DOMAIN rows : i # j => rows[i].meeting_id # rows[j].meeting_id
        /\ \A i, j \in DOMAIN rows :
              i < j => ~IsLater(rows[i].meeting_date, rows[j].meeting_date) }

\* SELECT ... FROM fomc_meetings ORDER BY meeting_date DESC: every order of the
\* rows the server may produce, rows of one date in either order
OrderedByMeetingDate(table) ==
    { rows \in [1..Cardinality(DOMAIN table) -> {table[id] : id \in DOMAIN table}] :
        /\ \A i, j \in DOMAIN rows : i # j => rows[i].meeting_id # rows[j].meeting_id
        /\ \A i, j \in DOMAIN rows :
              i < j => ~IsLater(rows[j].meeting_date, rows[i].meeting_date) }

\* LIMIT %s
Limit(rows, limit) == SubSeq(rows, 1, IF Len(rows) < limit THEN Len(rows) ELSE limit)

\* What follows the finally block: the LookupError, or the rows and the card
fetch_latest_return(rows) ==
    IF rows = <<>> THEN Raised("LookupError: No meetings found")
    ELSE LET latest_row == row_to_dict(rows[1])
             prev_row == IF Len(rows) > 1 THEN row_to_dict(rows[2]) ELSE NoDict
         IN [raised |-> None, rows |-> rows, latest |-> latest_row, previous |-> prev_row,
             card |-> format_card(latest_row, prev_row)]

MeetingIds == <<"2023-01", "2023-03", "2023-05", "2023-06", "2023-07">>

\* The tables the loader can have left: up to n meetings, two of which may
\* have been given the same date
RECURSIVE MeetingTables(_)
MeetingTables(n) ==
    IF n = 0 THEN {NoArgs}
    ELSE LET fewer == MeetingTables(n - 1) IN
         fewer \cup { (MeetingIds[n] :> Meeting(MeetingIds[n], meeting_date, revision)) @@ table :
                         table \in fewer,
                         meeting_date \in {<<2023, 2, 1>>, <<2023, 3, 22>>},
                         revision \in 1..2 }

InitLatest ==
    /\ env \in {Env(TRUE, TRUE, TRUE, 2), Env(TRUE, FALSE, TRUE, 2), Env(TRUE, TRUE, FALSE, 1)}
    /\ RequestAtRest
    /\ fomc_meetings \in MeetingTables(MaxStoredMeetings)
    /\ loaded = 0
    /\ connections = <<>>
    /\ fn_call = [fn |-> "fetch_latest", limit |-> 2, at |-> "connect",
                  rows |-> <<>>, exc |-> None]
    /\ returned = <<>>

\* conn = _get_connection(): raises without a connection when a PG_* variable
\* is missing or the server cannot be reached
GetConnection ==
    /\ fn_call.fn = "fetch_latest"
    /\ fn_call.at = "connect"
    /\ IF ~env.pg_env \/ ~env.network
       THEN /\ fn_call' = [fn_call EXCEPT !.at = "raised"]
            /\ returned' = <<Raised(IF ~env.pg_env
                                    THEN "RuntimeError: Missing required environment variable: PG_HOST"
                                    ELSE "psycopg2.OperationalError")>>
            /\ UNCHANGED connections
       ELSE /\ fn_call' = [fn_call EXCEPT !.at = "try"]
            /\ connections' = Append(connections, "open")
            /\ UNCHANGED returned
    /\ UNCHANGED <<env, request, pc, messages, tool_call_count, sources, attachments,
                   series_data, retrieved_docs, queries, invocations, last_act, response,
                   fred_client, requests, fomc_meetings, loaded>>

\* cur.execute(...); rows = cur.fetchall(); cur.close()
Execute ==
    /\ fn_call.fn = "fetch_latest"
    /\ fn_call.at = "try"
    /\ \E rows \in OrderedByMeetingDate(fomc_meetings) :
          fn_call' = [fn_call EXCEPT !.rows = Limit(rows, fn_call.limit), !.at = "finally"]
    /\ UNCHANGED <<env, request, pc, messages, tool_call_count, sources, attachments,
                   series_data, retrieved_docs, queries, invocations, last_act, response,
                   fred_client, requests, returned, fomc_meetings, loaded, connections>>

\* cur.execute(...) raises: the statement fails or the connection is lost
ExecuteFails ==
    /\ fn_call.fn = "fetch_latest"
    /\ fn_call.at = "try"
    /\ fn_call' = [fn_call EXCEPT !.exc = "psycopg2.Error", !.at = "finally"]
    /\ UNCHANGED <<env, request, pc, messages, tool_call_count, sources, attachments,
                   series_data, retrieved_docs, queries, invocations, last_act, response,
                   fred_client, requests, returned, fomc_meetings, loaded, connections>>

\* conn.close() written after cur.close() inside the try block
Finally_skipped_on_error ==
    /\ fn_call.fn = "fetch_latest"
    /\ fn_call.at = "finally"
    /\ connections' = IF fn_call.exc # None THEN connections
                      ELSE [connections EXCEPT ![Len(connections)] = "closed"]
    /\ fn_call' = [fn_call EXCEPT !.at = IF fn_call.exc # None THEN "raised" ELSE "after"]
    /\ returned' = IF fn_call.exc # None THEN <<Raised(fn_call.exc)>> ELSE returned
    /\ UNCHANGED <<env, request, pc, messages, tool_call_count, sources, attachments,
                   series_data, retrieved_docs, queries, invocations, last_act, response,
                   fred_client, requests, fomc_meetings, loaded>>

\* finally: conn.close(), then the pending exception, if any, goes on
Finally ==
    /\ fn_call.fn = "fetch_latest"
    /\ fn_call.at = "finally"
    /\ connections' = [connections EXCEPT ![Len(connections)] = "closed"]
    /\ fn_call' = [fn_call EXCEPT !.at = IF fn_call.exc # None THEN "raised" ELSE "after"]
    /\ returned' = IF fn_call.exc # None THEN <<Raised(fn_call.exc)>> ELSE returned
    /\ UNCHANGED <<env, request, pc, messages, tool_call_count, sources, attachments,
                   series_data, retrieved_docs, queries, invocations, last_act, response,
                   fred_client, requests, fomc_meetings, loaded>>

\* if not rows: raise LookupError; otherwise the two dicts, the card, return
Return ==
    /\ fn_call.fn = "fetch_latest"
    /\ fn_call.at = "after"
    /\ returned' = <<fetch_latest_return(fn_call.rows)>>
    /\ fn_call' = [fn_call EXCEPT !.at = IF fn_call.rows = <<>> THEN "raised" ELSE "returned"]
    /\ UNCHANGED <<env, request, pc, messages, tool_call_count, sources, attachments,
                   series_data, retrieved_docs, queries, invocations, last_act, response,
                   fred_client, requests, fomc_meetings, loaded, connections>>

NextLatest == GetConnection \/ Execute \/ ExecuteFails \/ Finally \/ Return

SpecLatest == InitLatest /\ [][NextLatest]_vars

-----------------------------------------------------------------------------
(* graph.call_tool as a step of the graph: a later Act step of a request *)

\* The state in which call_tool is entered: with no message at all, or after an
\* Act step that has answered a first assistant message, on a second one
InitAct ==
    /\ env \in Envs
    /\ request = Query(UserQuestion, <<>>)
    /\ pc = "tools"
    /\ response = NotAnswered
    /\ requests = <<>>
    /\ fn_call = NoCall
    /\ returned = <<>>
    /\ LoaderAtRest
    /\ \/ /\ messages = <<>>
          /\ tool_call_count = 0
          /\ sources = <<>>
          /\ attachments = <<>>
          /\ series_data = <<>>
          /\ retrieved_docs = <<>>
          /\ queries = <<>>
          /\ invocations = <<>>
          /\ last_act = Locals(0, 0)
          /\ fred_client = None
       \/ \E first \in Batches(1) \ {<<>>}, second \in Batches(MaxCalls) \ {<<>>} :
             \E r \in {call_tool(<<HumanMessage(UserQuestion), AIMessage(NoContent, first)>>, 0)} :
                /\ r.raised = None
                /\ messages = add_messages(
                                  add_messages(<<HumanMessage(UserQuestion),
                                                 AIMessage(NoContent, first)>>, r.tool_messages),
                                  <<AIMessage(NoContent, second)>>)
                /\ tool_call_count = r.tool_call_count
                /\ sources = accumulate(<<>>, r.sources)
                /\ attachments = accumulate(<<>>, r.attachments)
                /\ series_data = accumulate(<<>>, r.series_data)
                /\ retrieved_docs = accumulate(<<>>, r.collected_docs)
                /\ queries = accumulate(<<>>, r.collected_queries)
                /\ invocations = r.invoked
                /\ last_act = r
                /\ fred_client = get_fred_client(None, r.invoked)

NextAct == CallTool

SpecAct == InitAct /\ [][NextAct]_vars

-----------------------------------------------------------------------------
(* Properties of the dispatch loop *)

\* The last call_tool run: whether there was one, whether it returned, the tool
\* calls it was given and the value of tool_call_count it started from
Acted == last_act.at > 0
Completed == Acted /\ last_act.raised = None
ActCalls == IF Acted THEN messages[last_act.at].tool_calls ELSE <<>>
Processed == DOMAIN last_act.trace
EntryCount == IF last_act.trace = <<>> THEN last_act.tool_call_count
              ELSE last_act.trace[1].count_before

\* Act steps that have handed control back to the model
ActSteps ==
    Cardinality({i \in 1..(Len(messages) - 1) :
                    messages[i].type = "ai" /\ messages[i].tool_calls # <<>>})

LimitNotices ==
    {i \in DOMAIN messages : messages[i].type = "tool" /\ messages[i].content = LimitContent}

\* C1: once tool_call_count has reached MAX_TOOL_CALLS no adapter is invoked:
\* every adapter invocation of the request was made with tool_call_count below
\* the budget, and a call that meets the budget is answered without an
\* invocation and is the last call of the turn that is processed.
C1_NoAdapterOnceBudgetReached ==
    /\ \A i \in DOMAIN invocations : invocations[i].count_before < MAX_TOOL_CALLS
    /\ \A j \in Processed :
          last_act.trace[j].count_before >= MAX_TOOL_CALLS
             => last_act.trace[j].n_invoked = 0 /\ j = Len(last_act.trace)

\* The budget was reached inside a turn that asked for more calls than were processed
C1_Witness ==
    /\ Completed
    /\ tool_call_count = MAX_TOOL_CALLS
    /\ last_act.broke
    /\ Len(invocations) = MAX_TOOL_CALLS
    /\ Len(last_act.trace) < Len(ActCalls)

\* C2: after the budget-exceeded notice has been appended, call_tool is never
\* entered again in the request.
C2_NoActAfterNotice == pc = "tools" => LimitNotices = {}

NotImplementedContent(name) == Content("Tool '{name}' is not implemented.", name, "", <<>>)

UnknownAnswer(j) ==
    /\ last_act.trace[j].outcome = "answered"
    /\ last_act.tool_messages[j].content = NotImplementedContent(ActCalls[j].name)
    /\ last_act.trace[j].n_sources = 0
    /\ last_act.trace[j].n_invoked = 0
    /\ last_act.trace[j].count_after = last_act.trace[j].count_before

\* C4 (as claimed): every tool call with an unregistered name gets the
\* "is not implemented" message, no source record, no adapter invocation and
\* leaves tool_call_count unchanged.
C4_UnknownAlwaysDiagnosed ==
    Completed =>
        \A j \in DOMAIN ActCalls :
            ActCalls[j].name \notin RegisteredTools => j \in Processed /\ UnknownAnswer(j)

\* C4 (amended): every tool call with an unregistered name that call_tool
\* processes while tool_call_count is below the budget gets the "is not
\* implemented" message, no source record, no adapter invocation and leaves
\* tool_call_count unchanged.
C4_UnknownDiagnosedWithinBudget ==
    \A j \in Processed :
        (ActCalls[j].name \notin RegisteredTools
            /\ last_act.trace[j].count_before < MAX_TOOL_CALLS) => UnknownAnswer(j)

\* An unknown tool was answered after a counted call of the same turn
C4_Witness ==
    \E j \in Processed :
        /\ ActCalls[j].name \notin RegisteredTools
        /\ last_act.trace[j].outcome = "answered"
        /\ last_act.trace[j].count_before > 0

\* C5: tool_call_count is an integer between 0 and MAX_TOOL_CALLS in every
\* state of a request and no step decreases it.
C5_CountBoundedAndMonotone ==
    [][ /\ tool_call_count \in 0..MAX_TOOL_CALLS
        /\ tool_call_count' \in 0..MAX_TOOL_CALLS
        /\ tool_call_count' >= tool_call_count ]_vars

\* The counter stands at the budget after two Act steps
C5_Witness == tool_call_count = MAX_TOOL_CALLS /\ ActSteps = 2

\* C6: an Act step adds to tool_call_count exactly the number of its tool calls
\* for which an adapter or external capability was invoked.
C6_CountEqualsInvocations ==
    Completed => last_act.tool_call_count = EntryCount + Len(last_act.invoked)

\* C7: every tool call for which an adapter was invoked and returned produces
\* one tool-response message and one source record.
C7_InvokedHasSourceRecord ==
    \A j \in Processed :
        (last_act.trace[j].n_invoked > 0 /\ last_act.trace[j].outcome # "raised")
            => last_act.trace[j].outcome = "answered" /\ last_act.trace[j].n_sources = 1

\* The diagnostic each branch answers when its required argument is missing
MissingArgumentText ==
    [retrieve_documents |-> "No query provided to retrieval tool.",
     fred_chart |-> "A FRED series_id is required for chart generation.",
     fred_recent_data |-> "A FRED series_id is required to fetch recent data.",
     fred_series_release_schedule |->
        "A FRED series_id is required to fetch the series release schedule.",
     fred_release_structure |->
        "A release_name is required to fetch release structure metadata.",
     fred_search_series |-> "A search query is required to search FRED series.",
     fraser_search_fomc_titles |-> "A query is required to search FOMC titles."]

LacksRequiredArg(call) ==
    /\ call.name \in ToolsWithRequiredArg
    /\ Falsy(Get(call.args, RequiredArg[call.name]))

\* C8 (as claimed): every call of a known tool whose required argument is
\* missing or empty gets a tool-response message, no adapter invocation, no
\* source record and leaves tool_call_count unchanged.
C8_MissingArgAlwaysDiagnosed ==
    Completed =>
        \A j \in DOMAIN ActCalls :
            LacksRequiredArg(ActCalls[j]) =>
                /\ j \in Processed
                /\ last_act.trace[j].n_invoked = 0
                /\ last_act.trace[j].n_sources = 0
                /\ last_act.trace[j].count_after = last_act.trace[j].count_before

\* C8 (amended): every call of a known tool whose required argument is missing
\* or empty, processed while tool_call_count is below the budget, is answered
\* with that tool's diagnostic; no adapter is invoked, no source record is
\* appended and tool_call_count is unchanged.
C8_MissingArgDiagnosedWithinBudget ==
    \A j \in Processed :
        (LacksRequiredArg(ActCalls[j]) /\ last_act.trace[j].count_before < MAX_TOOL_CALLS) =>
            /\ last_act.trace[j].outcome = "answered"
            /\ last_act.tool_messages[j].content =
                  Content(MissingArgumentText[ActCalls[j].name], "", "", <<>>)
            /\ last_act.trace[j].n_invoked = 0
            /\ last_act.trace[j].n_sources = 0
            /\ last_act.trace[j].count_after = last_act.trace[j].count_before

\* A call without its argument was answered in a turn that also invoked an adapter
C8_Witness ==
    /\ Completed
    /\ last_act.invoked # <<>>
    /\ \E j \in Processed :
          LacksRequiredArg(ActCalls[j]) /\ last_act.trace[j].outcome = "answered"

\* C9: no adapter lets an exception escape, whatever its upstream does.
C9_NoAdapterRaises == \A j \in Processed : last_act.trace[j].outcome # "raised"

\* C10: a failure in the tool layer never ends the request: a request ends in
\* the boundary's error only when the model call failed.
C10_OnlyModelFailureIsFatal == pc = "error" => last_act.raised = None

\* The limit notices among the tool messages of the last call_tool run
ActNotices ==
    {j \in DOMAIN last_act.tool_messages : last_act.tool_messages[j].content = LimitContent}

\* C11: when the budget is reached during an Act step, one budget-exceeded
\* tool-response message is appended, for the first call that meets the limit;
\* the iteration stops there and the calls after it are neither executed nor
\* answered: the notice is the last message of the step and the next message
\* of the history, if any, is the model's.
C11_OneNoticeThenStop ==
    Completed =>
        /\ Cardinality(ActNotices) <= 1
        /\ Len(last_act.tool_messages) = Len(last_act.trace)
        /\ Len(last_act.trace) <= Len(ActCalls)
        /\ \A j \in Processed : messages[last_act.at + j] = last_act.tool_messages[j]
        /\ \A j \in Processed :
              (last_act.trace[j].count_before >= MAX_TOOL_CALLS) =>
                  ( /\ ActNotices = {j}
                    /\ j = Len(last_act.tool_messages)
                    /\ last_act.tool_messages[j].tool_call_id = OrEmpty(ActCalls[j].id)
                    /\ last_act.trace[j].n_invoked = 0
                    /\ \A k \in 1..(j - 1) :
                          last_act.trace[k].count_before < MAX_TOOL_CALLS )
        /\ (Len(messages) > last_act.at + Len(last_act.tool_messages)) =>
              (messages[last_act.at + Len(last_act.tool_messages) + 1].type = "ai")

\* The budget was met with two calls still asked for: one gets the notice, the other no answer
C11_Witness ==
    /\ Completed
    /\ Cardinality(ActNotices) = 1
    /\ Len(ActCalls) = Len(last_act.tool_messages) + 1
    /\ pc = "agent"

\* C12: every tool-response message appended by call_tool carries as its
\* tool_call_id the id of one of the tool-call requests of the assistant message
\* right before the step, never an id that no request has.
C12_ResponseIdsMatchRequests ==
    \A j \in DOMAIN last_act.tool_messages :
        last_act.tool_messages[j].tool_call_id \in {ActCalls[i].id : i \in DOMAIN ActCalls}

-----------------------------------------------------------------------------
(* Properties of the request boundary *)

\* The graph returned (its last message is the model's final one) rather than raised
GraphReturned ==
    /\ messages # <<>>
    /\ messages[Len(messages)].type = "ai"
    /\ messages[Len(messages)].tool_calls = <<>>
FinalMessage == messages[Len(messages)]
ToolsRequested == \E i \in DOMAIN messages : messages[i].tool_calls # <<>>
HasKey(key) == key \in DOMAIN response.body

\* C13: an exception raised while the history is built, while the loop runs or
\* while the result is serialized is caught inside ask and answered with
\* status 200 and the body {"response": "Error: ..."}.
C13_ExceptionsAnsweredInBand ==
    [][ /\ (pc = "ask" /\ BuildHistory(request).raised # None => pc' = "error")
        /\ (last_act' # last_act /\ last_act'.raised # None => pc' = "error")
        /\ (pc = "error" => pc' = "done" /\ response' = Returned200(ErrorBody))
        /\ (pc' = "done" =>
               /\ response'.status = 200
               /\ (~GraphReturned => response'.body = ErrorBody)) ]_vars

\* A conversation entry without a key ended the request with the error body
C13_Witness ==
    /\ pc = "done"
    /\ messages = <<>>
    /\ request.conversation # <<>>
    /\ response = Returned200(ErrorBody)

\* C14 (as claimed): every response body of POST /ask has a tool_call_count field.
C14_EveryBodyHasCount == pc = "done" => HasKey("tool_call_count")

\* C14 (amended): the body has an integer tool_call_count, the counter of the
\* terminal state, exactly when the graph returned and some message of the
\* history has content; the "No response" body and the error body consist of
\* the response field alone.
C14_CountOnlyWithAnAnswer ==
    pc = "done" =>
        IF GraphReturned /\ \E i \in DOMAIN messages : messages[i].content # NoContent
        THEN /\ HasKey("tool_call_count")
             /\ response.body["tool_call_count"] = tool_call_count
             /\ tool_call_count \in 0..MAX_TOOL_CALLS
        ELSE /\ DOMAIN response.body = {"response"}
             /\ response.body["response"] =
                   IF GraphReturned THEN Text("No response") ELSE ErrorBody["response"]

\* The graph returned a history in which no message has content
C14_Witness ==
    /\ pc = "done"
    /\ GraphReturned
    /\ response.body = "response" :> Text("No response")

\* C15: when the loop ends with a final message and no tool call was requested,
\* ask returns the final message's text as response, tool_call_count 0, and the
\* keys attachments, series_data and sources exactly for the non-empty lists.
C15_PlainAnswer ==
    (pc = "done" /\ GraphReturned /\ ~ToolsRequested) =>
        /\ response.body["response"] = FinalMessage.content
        /\ HasKey("tool_call_count")
        /\ response.body["tool_call_count"] = 0
        /\ HasKey("attachments") <=> attachments # <<>>
        /\ HasKey("series_data") <=> series_data # <<>>
        /\ HasKey("sources") <=> sources # <<>>

\* C16: on the non-error path the response text is the content of the final
\* assistant message of the terminal state, never that of a tool-response
\* message, of the user's message or of an earlier assistant message.
C16_ResponseIsFinalMessage ==
    (pc = "done" /\ GraphReturned) => response.body["response"] = FinalMessage.content

TurnsKept ==
    {i \in DOMAIN request.conversation :
        request.conversation[i]["role"] \in {"user", "assistant"}}

Rank(i) == Cardinality({k \in TurnsKept : k <= i})

TurnUnreadable(turn) ==
    \/ "role" \notin DOMAIN turn
    \/ turn["role"] \in {"user", "assistant"} /\ "content" \notin DOMAIN turn

\* C17 (as claimed): the history that seeds the loop is every turn of the
\* conversation, in order and whatever its role, then the new user message.
C17_SeedIsWholeConversation ==
    messages # <<>> =>
        /\ Len(messages) >= Len(request.conversation) + 1
        /\ \A i \in DOMAIN request.conversation :
              messages[i].content = request.conversation[i]["content"]
        /\ messages[Len(request.conversation) + 1] = HumanMessage(request.text)

\* C17 (amended): the history that seeds the loop is the turns of the
\* conversation whose role is user or assistant, in order, each as a message
\* of that kind with the turn's content, then the new user message; turns of
\* any other role are left out; tool_call_count starts at 0; a turn that
\* cannot be read ends the request before the loop.
C17_SeedIsUserAndAssistantTurns ==
    /\ (pc = "ask" => messages = <<>> /\ tool_call_count = 0)
    /\ (pc # "ask" =>
          (messages = <<>> <=>
              \E i \in DOMAIN request.conversation : TurnUnreadable(request.conversation[i])))
    /\ (messages # <<>> =>
          /\ Len(messages) >= Cardinality(TurnsKept) + 1
          /\ \A i \in TurnsKept :
                messages[Rank(i)] =
                    [type |-> IF request.conversation[i]["role"] = "user" THEN "human" ELSE "ai",
                     content |-> request.conversation[i]["content"],
                     tool_calls |-> <<>>, tool_call_id |-> ""]
          /\ messages[Cardinality(TurnsKept) + 1] = HumanMessage(request.text)
          /\ (Len(messages) = Cardinality(TurnsKept) + 1 => tool_call_count = 0))

\* The loop was seeded from a conversation with turns of other roles
C17_Witness ==
    /\ pc = "agent"
    /\ Len(request.conversation) = 4
    /\ Len(messages) = 3
    /\ Cardinality(TurnsKept) = 2

-----------------------------------------------------------------------------
(* Properties of requests served side by side *)

Others(r) == DOMAIN requests \ {r}

-----------------------------------------------------------------------------
(* Properties of the latest-decision card *)

CardMade ==
    /\ fn_call.fn = "format_card"
    /\ returned # <<>>
    /\ returned[1].raised = None

SameRange(a, b) ==
    /\ a["target_range_low"] = b["target_range_low"]
    /\ a["target_range_high"] = b["target_range_high"]

\* C19: in the card format_card makes, changes is null when there is no
\* previous meeting or when the previous meeting has the same (low, high) as
\* the latest; otherwise changes.target_range holds the previous meeting's
\* {low, high} as previous and the latest meeting's {low, high} as current.
C19_ChangesOnlyWhenRangeDiffers ==
    CardMade =>
        LET latest == fn_call.latest
            previous == fn_call.previous
            changes == returned[1].card.changes
        IN
        IF previous = NoDict
        THEN changes = NoDict
        ELSE IF SameRange(latest, previous)
        THEN changes = NoDict
        ELSE /\ DOMAIN changes = {"target_range"}
             /\ changes.target_range.previous.low = previous["target_range_low"]
             /\ changes.target_range.previous.high = previous["target_range_high"]
             /\ changes.target_range.current.low = latest["target_range_low"]
             /\ changes.target_range.current.high = latest["target_range_high"]

\* A card for two meetings whose ranges differ in the upper bound only
C19_Witness ==
    /\ CardMade
    /\ fn_call.previous # NoDict
    /\ fn_call.previous["target_range_low"] = fn_call.latest["target_range_low"]
    /\ fn_call.previous["target_range_high"] # fn_call.latest["target_range_high"]
    /\ returned[1].card.changes # NoDict

-----------------------------------------------------------------------------
(* Properties of the correlation analysis *)

Analyzed ==
    /\ fn_call.fn = "analyze_series_correlation"
    /\ returned # <<>>
    /\ returned[1].analysis # NoDict

\* C20: the correlation the lag scan records for lag 0 is the reported
\* yoy_correlation: the shift by 0 leaves the aligned pairs as they are (for a
\* single row, or a column without variance, both are NaN).
C20_LagZeroIsYoYCorrelation ==
    Analyzed =>
        /\ returned[1].lag_results # <<>>
        /\ returned[1].lag_results[1].lag_months = 0
        /\ returned[1].lag_results[1].correlation = returned[1].analysis.yoy_correlation
        /\ dropna(concat(shift(Column(fn_call.yoy_df, 1), 0), Column(fn_call.yoy_df, 2)))
              = fn_call.yoy_df

\* A scan over several lags of a frame whose correlation is a number below 1
C20_Witness ==
    /\ Analyzed
    /\ Len(returned[1].lag_results) > 1
    /\ ~returned[1].analysis.yoy_correlation.nan
    /\ returned[1].analysis.yoy_correlation.num < 0
    /\ returned[1].lag_results[2].correlation # returned[1].analysis.yoy_correlation

\* The months of a series that lie in the window and have at least a year
\* of observations of the window before them
YoYMonths(series) ==
    LET Inside(i) == series[i].date >= fn_call.start_date /\ series[i].date <= fn_call.end_date IN
    {series[i].date : i \in {k \in DOMAIN series :
        Inside(k) /\ Cardinality({j \in 1..(k - 1) : Inside(j)}) >= YoYPeriods}}

SeriesFetched ==
    /\ FredClientError(fn_call.leading_series_id) = None
    /\ FredClientError(fn_call.lagging_series_id) = None
    /\ fn_call.leading_series_id \in MonthlySeries
    /\ fn_call.lagging_series_id \in MonthlySeries

\* C21: when the two series have no common month with a year-over-year
\* change inside the window, analyze_series_correlation returns a message and
\* an empty analysis, without an error field, and scans no lag.
C21_NoOverlapGivesEmptyAnalysis ==
    (returned # <<>> /\ SeriesFetched
        /\ YoYMonths(fn_call.leading) \cap YoYMonths(fn_call.lagging) = {}) =>
            /\ DOMAIN returned[1].payload = {"message", "analysis"}
            /\ returned[1].payload["analysis"] = NoDict
            /\ ~returned[1].scanned
            /\ returned[1].lag_results = <<>>

\* Both series have year-over-year changes, in different months
C21_Witness ==
    /\ returned # <<>>
    /\ SeriesFetched
    /\ YoYMonths(fn_call.leading) # {}
    /\ YoYMonths(fn_call.lagging) # {}
    /\ YoYMonths(fn_call.leading) \cap YoYMonths(fn_call.lagging) = {}
    /\ "error" \notin DOMAIN returned[1].payload

\* The position in lag_results of the entry an extreme was taken from
ScannedAt(entry) ==
    CHOOSE i \in DOMAIN returned[1].lag_results :
        returned[1].lag_results[i].lag_months = entry.lag_months

\* entry is the first of lag_results that no other entry exceeds (wants_max)
\* or undercuts; NaN entries compare with nothing
IsExtreme(entry, wants_max) ==
    LET lag_results == returned[1].lag_results
        Beats(a, b) == IF wants_max THEN Greater(a, b) ELSE Greater(b, a)
    IN
    /\ \E i \in DOMAIN lag_results : lag_results[i] = entry
    /\ \A j \in DOMAIN lag_results : ~Beats(lag_results[j].correlation, entry.correlation)
    /\ \A j \in 1..(ScannedAt(entry) - 1) :
          lag_results[j].correlation.nan
            \/ Beats(entry.correlation, lag_results[j].correlation)
    /\ entry.correlation.nan => \A j \in DOMAIN lag_results : lag_results[j].correlation.nan

ExtremesWithin(last) ==
    Analyzed =>
        /\ returned[1].analysis.best_positive_lag # NoDict
        /\ returned[1].analysis.most_negative_lag # NoDict
        /\ returned[1].analysis.best_positive_lag.lag_months \in 0..last
        /\ returned[1].analysis.most_negative_lag.lag_months \in 0..last
        /\ IsExtreme(returned[1].analysis.best_positive_lag, TRUE)
        /\ IsExtreme(returned[1].analysis.most_negative_lag, FALSE)

\* C22 as stated: a non-empty analysis for max_lag_months = L has both
\* extremes, with lag_months in [0, L], the first lag of the highest and the
\* first lag of the lowest scanned correlation.
C22_ExtremesWithinGivenLag ==
    ExtremesWithin(fn_call.max_lag_months)

\* C22: a non-empty analysis for max_lag_months = L has both extremes, with
\* lag_months in [0, max(0, L)], the first lag of the highest and the first
\* lag of the lowest scanned correlation.
C22_ExtremesWithinClampedLag ==
    ExtremesWithin(IF fn_call.max_lag_months > 0 THEN fn_call.max_lag_months ELSE 0)

\* Two lags tie for the highest correlation
C22_Witness ==
    /\ Analyzed
    /\ fn_call.max_lag_months > 0
    /\ ~returned[1].analysis.best_positive_lag.correlation.nan
    /\ \E j \in DOMAIN returned[1].lag_results :
          /\ j > ScannedAt(returned[1].analysis.best_positive_lag)
          /\ ~returned[1].lag_results[j].correlation.nan
          /\ ~Greater(returned[1].analysis.best_positive_lag.correlation,
                      returned[1].lag_results[j].correlation)

\* C23: after any number of upserts, the stored row of every meeting_id
\* written so far equals the last record written for it, meeting_date
\* included.
C23_RowIsLastRecordWritten ==
    fn_call.fn = "load_meetings" =>
        \A i \in 1..loaded :
            (\A j \in (i + 1)..loaded :
                fn_call.json_files[j].meeting_id # fn_call.json_files[i].meeting_id)
            => /\ fn_call.json_files[i].meeting_id \in DOMAIN fomc_meetings
               /\ fomc_meetings[fn_call.json_files[i].meeting_id] = fn_call.json_files[i]

Routed ==
    /\ fn_call.fn = "should_continue"
    /\ returned # <<>>

\* C24: should_continue routes to the Act step exactly when the history ends
\* with an assistant message that carries at least one tool call; an empty
\* history, an assistant message without tool calls and a last message of any
\* other class end the loop.
C24_ActIffToolCallsRequested ==
    Routed =>
        LET history == fn_call.messages
            n == Len(history)
        IN
        /\ returned[1] \in {"tools", "__end__"}
        /\ returned[1] = "tools" <=>
              (n > 0 /\ history[n].type = "ai" /\ Len(history[n].tool_calls) >= 1)
        /\ n = 0 => returned[1] = "__end__"
        /\ (n > 0 /\ history[n].type # "ai") => returned[1] = "__end__"
        /\ (n > 0 /\ history[n].tool_calls = <<>>) => returned[1] = "__end__"

\* A tool response is followed by an assistant message with two tool calls
C24_Witness ==
    /\ Routed
    /\ returned[1] = "tools"
    /\ Len(fn_call.messages) = 2
    /\ fn_call.messages[1].type = "tool"
    /\ Len(fn_call.messages[2].tool_calls) = 2

\* The messages a step has appended to the history
AppendedMessages == SubSeq(messages', Len(messages) + 1, Len(messages'))

\* C25: the loop of one request alternates between the model and the Act
\* step, one at a time. Nothing is invoked before the first model invocation;
\* a model invocation appends one assistant message and invokes no adapter; an
\* Act step only follows a model invocation that asked for tools, appends no
\* assistant message, invokes at most one adapter per tool call, in the order
\* of the calls, and hands control back to the model (or fails the request).
C25_ModelAndActAlternate ==
    [][ /\ (NumModelCalls = 0 => (invocations = <<>> /\ ~Acted))
        /\ (pc = "ask" => pc' \in {"agent", "error"})
        /\ (pc = "agent" /\ pc' # "error") =>
              /\ pc' = "route"
              /\ Len(AppendedMessages) = 1
              /\ AppendedMessages[1].type = "ai"
              /\ invocations' = invocations
        /\ (pc = "route") => (pc' \in {"tools", "end"} /\ invocations' = invocations
                               /\ messages' = messages)
        /\ (pc' = "tools") =>
              (pc = "route" /\ messages[Len(messages)].type = "ai")
        /\ (pc = "tools") =>
              /\ pc' \in {"agent", "error"}
              /\ \A i \in DOMAIN AppendedMessages : AppendedMessages[i].type = "tool"
              /\ \A i \in DOMAIN last_act'.trace : last_act'.trace[i].n_invoked <= 1
              /\ invocations' = invocations \o last_act'.invoked
              /\ \A i, j \in DOMAIN last_act'.invoked :
                    i <= j => last_act'.invoked[i].count_before <= last_act'.invoked[j].count_before
        /\ (invocations' # invocations) => pc = "tools"
      ]_vars

\* The model has been invoked again after an Act step that invoked two adapters
C25_Witness ==
    /\ pc = "route"
    /\ NumModelCalls = 2
    /\ Completed
    /\ Len(last_act.invoked) = 2
    /\ messages[Len(messages)].type = "ai"
    /\ messages[Len(messages) - 1].type = "tool"

\* call_tool has run on the message under examination and returned its updates
ActReturned ==
    /\ fn_call.fn = "call_tool"
    /\ returned # <<>>
    /\ returned[1].raised = None

RequestedCalls == fn_call.messages[Len(fn_call.messages)].tool_calls

\* What the i-th call is answered with when it is dispatched
Answer(i) == Dispatch(RequestedCalls[i].name, RequestedCalls[i].args)

\* The source records of the first k calls, in the order of the calls
RECURSIVE SourcesInCallOrder(_)
SourcesInCallOrder(k) ==
    IF k = 0 THEN <<>>
    ELSE SourcesInCallOrder(k - 1)
         \o (IF returned[1].trace[k].outcome = "answered" THEN Answer(k).source ELSE <<>>)

\* C26: the tool calls of an assistant message are processed in the order in
\* which they were issued: the i-th tool message carries the id and the answer
\* of the i-th call, and the source records are those of the processed calls in
\* the same order.
C26_ResponsesInCallOrder ==
    ActReturned =>
        LET r == returned[1]
            k == Len(r.tool_messages)
        IN
        /\ k <= Len(RequestedCalls)
        /\ k = Len(r.trace)
        /\ \A i \in 1..k :
              /\ r.tool_messages[i].type = "tool"
              /\ r.tool_messages[i].tool_call_id = RequestedCalls[i].id
              /\ r.tool_messages[i].content =
                    IF r.trace[i].outcome = "limit" THEN LimitContent ELSE Answer(i).content
        /\ r.sources = SourcesInCallOrder(k)

\* Three different calls are answered, the first and the last with a source record
C26_Witness ==
    /\ ActReturned
    /\ Len(returned[1].tool_messages) = 3
    /\ Len(returned[1].sources) = 2
    /\ returned[1].sources[1].tool # returned[1].sources[2].tool
    /\ returned[1].tool_messages[1].content # returned[1].tool_messages[2].content
    /\ returned[1].tool_messages[2].content # returned[1].tool_messages[3].content
    /\ returned[1].trace[2].n_sources = 0

\* C27: the message history only grows at its end: the history before any
\* step of the request (the model's, the Act step's, the router's) is a prefix
\* of the history after it.
C27_HistoryIsAppendOnly ==
    [][ /\ Len(messages') >= Len(messages)
        /\ SubSeq(messages', 1, Len(messages)) = messages ]_vars

\* The user message, a request for two tools, their answers and the final answer
C27_Witness ==
    /\ Len(messages) = 5
    /\ messages[1].type = "human"
    /\ messages[2].type = "ai"
    /\ messages[3].type = "tool"
    /\ messages[4].type = "tool"
    /\ messages[5].type = "ai"
    /\ pc = "done"

\* The Act step has handed control back to the model
BackToModel == pc = "agent" /\ Completed

\* The tool messages the last Act step has appended
Responses == SubSeq(messages, last_act.at + 1, Len(messages))

\* C28 as stated: when the model is about to be invoked again after an Act
\* step, every tool call of the preceding assistant message has its one tool
\* message, also when the budget was reached part-way through the calls.
C28_EveryCallAnswered ==
    BackToModel =>
        /\ Len(Responses) = Len(ActCalls)
        /\ \A i \in DOMAIN ActCalls :
              /\ Responses[i].type = "tool"
              /\ Responses[i].tool_call_id = OrEmpty(ActCalls[i].id)

\* C28: when the model is about to be invoked again after an Act step, the
\* tool calls of the preceding assistant message have one tool message each,
\* in order, up to and including the call at which the budget was reached;
\* that call has the limit notice and the calls behind it have none.
C28_CallsAnsweredUpToBudget ==
    BackToModel =>
        LET k == Len(Responses) IN
        /\ k >= 1 /\ k <= Len(ActCalls)
        /\ \A i \in 1..k :
              /\ Responses[i].type = "tool"
              /\ Responses[i].tool_call_id = OrEmpty(ActCalls[i].id)
              /\ Responses[i].content = LimitContent => i = k
        /\ k < Len(ActCalls) =>
              /\ Responses[k].content = LimitContent
              /\ tool_call_count = MAX_TOOL_CALLS

\* The budget is reached two calls before the end of the request: every call
\* up to there is answered, the next has the notice, the last has no tool message
C28_Witness ==
    /\ BackToModel
    /\ Len(ActCalls) = MAX_TOOL_CALLS + 2
    /\ Len(Responses) = MAX_TOOL_CALLS + 1
    /\ Responses[MAX_TOOL_CALLS].content # LimitContent
    /\ Responses[MAX_TOOL_CALLS + 1].content = LimitContent

\* The adapter invocations of the last Act step made before its j-th call
RECURSIVE InvokedBefore(_)
InvokedBefore(j) ==
    IF j <= 1 THEN 0 ELSE InvokedBefore(j - 1) + last_act.trace[j - 1].n_invoked

\* C29: every tool advertised in TOOL_DEFINITIONS has its branch in call_tool:
\* a dispatched call of an advertised tool is never answered "is not
\* implemented", and the argument the schema requires is the one the branch
\* tests and hands to its adapter: with it the adapter is invoked once, on that
\* value, and without it no adapter is invoked.
C29_AdvertisedToolsAreDispatched ==
    \A j \in Processed :
        (ActCalls[j].name \in RegisteredTools /\ last_act.trace[j].outcome # "limit") =>
            /\ last_act.trace[j].outcome = "answered" =>
                  last_act.tool_messages[j].content # NotImplementedContent(ActCalls[j].name)
            /\ ActCalls[j].name \in ToolsWithRequiredArg =>
                  IF LacksRequiredArg(ActCalls[j])
                  THEN last_act.trace[j].n_invoked = 0
                  ELSE /\ last_act.trace[j].n_invoked = 1
                       /\ last_act.invoked[InvokedBefore(j) + 1].arg
                             = Get(ActCalls[j].args, RequiredArg[ActCalls[j].name])
            /\ ActCalls[j].name \notin ToolsWithRequiredArg => last_act.trace[j].n_invoked = 1

\* The release structure tool was called with its release_name and answered
C29_Witness ==
    /\ Completed
    /\ \E j \in Processed :
          /\ ActCalls[j].name = "fred_release_structure"
          /\ Get(ActCalls[j].args, "release_name") = "H.4.1"
          /\ last_act.trace[j].outcome = "answered"
          /\ last_act.invoked[InvokedBefore(j) + 1].arg = "H.4.1"

\* C30: when the fred_series_correlation call carries a maximum lag in
\* months, the lags that analyze_series_correlation scans are those from 0 to
\* that maximum: no lag above it has an entry in the lag results.
C30_SuppliedLagBoundsScan ==
    (fn_call.fn = "fred_series_correlation" /\ returned # <<>>
        /\ "max_lag_months" \in DOMAIN fn_call.args /\ returned[1].scanned) =>
            /\ returned[1].lag_results # <<>>
            /\ \A i \in DOMAIN returned[1].lag_results :
                  returned[1].lag_results[i].lag_months \in 0..fn_call.args["max_lag_months"]

\* The metadata of both series was delivered
MetadataFetched ==
    /\ fn_call.fn = "analyze_series_correlation"
    /\ returned # <<>>
    /\ FredClientError(fn_call.leading_series_id) = None
    /\ FredClientError(fn_call.lagging_series_id) = None

\* C31: when the metadata of the leading or of the lagging series is not
\* monthly, analyze_series_correlation returns the error "non_monthly_series"
\* with an empty analysis and has fetched the observations of neither series.
C31_NonMonthlyReportedWithoutFetch ==
    (MetadataFetched /\ {fn_call.leading_series_id, fn_call.lagging_series_id}
                            \cap (KnownSeries \ MonthlySeries) # {}) =>
        /\ "error" \in DOMAIN returned[1].payload
        /\ returned[1].payload["error"] = Text("non_monthly_series")
        /\ returned[1].payload["analysis"] = NoDict
        /\ returned[1].fetched = <<>>
        /\ ~returned[1].scanned

\* The leading series is quarterly, the lagging one monthly
C31_Witness ==
    /\ MetadataFetched
    /\ fn_call.leading_series_id = "GDP"
    /\ fn_call.lagging_series_id \in MonthlySeries
    /\ returned[1].payload["error"] = Text("non_monthly_series")

\* The text of one date sorts before the text of another
Before(a, b) ==
    \/ a[1] < b[1]
    \/ a[1] = b[1] /\ a[2] < b[2]
    \/ a[1] = b[1] /\ a[2] = b[2] /\ a[3] < b[3]

SnapshotTaken == fn_call.fn = "get_series_snapshot" /\ returned # <<>>

\* The upstream points that carry a value, as date text and float
UpstreamPoints ==
    { Observation(strftime(fn_call.data[i].date), fn_call.data[i].value[1]) :
        i \in {j \in DOMAIN fn_call.data : fn_call.data[j].value # NaN} }

\* C32: the observations of a snapshot are in strictly ascending date order and
\* are exactly the upstream points that are not NaN, each of them once
C32_SnapshotAscendingWithoutNaN ==
    SnapshotTaken =>
        LET observations == returned[1].observations IN
        /\ \A i \in DOMAIN observations : \A j \in DOMAIN observations :
              i < j => Before(observations[i].date, observations[j].date)
        /\ { observations[i] : i \in DOMAIN observations } = UpstreamPoints
        /\ Len(observations) = Cardinality(UpstreamPoints)

C32_Witness ==
    /\ SnapshotTaken
    /\ Len(fn_call.data) >= 3
    /\ \E i \in DOMAIN fn_call.data : fn_call.data[i].value = NaN
    /\ Len(returned[1].observations) >= 2
    /\ Len(returned[1].observations) < Len(fn_call.data)

RecentDataFetched == fn_call.fn = "fetch_recent_data" /\ returned # <<>>

Min(a, b) == IF a < b THEN a ELSE b

\* The last count entries of a list
LastOf(list, count) == SubSeq(list, Len(list) - count + 1, Len(list))

\* C38: a successful fetch_recent_data returns exactly one data block, whose
\* points are the last min(latest_points, n) of the n observations of the
\* snapshot, oldest first; a failed one returns no block and an error text
C38_PointsAreLastMin ==
    RecentDataFetched =>
        LET payload == returned[1].payload
            snapshot == returned[1].snapshot
        IN
        IF snapshot = NoDict
        THEN /\ payload["series_data"] = <<>>
             /\ "error" \in DOMAIN payload
             /\ payload["error"] # None
        ELSE /\ Len(payload["series_data"]) = 1
             /\ "error" \notin DOMAIN payload
             /\ payload["series_data"][1].points =
                   LastOf(snapshot.observations,
                          Min(fn_call.latest_points, Len(snapshot.observations)))

ScheduleFetched ==
    /\ fn_call.fn = "fetch_series_release_schedule"
    /\ returned # <<>>
    /\ returned[1].raised = None
    /\ "error" \notin DOMAIN returned[1].payload

\* The entries whose date starts with four digits
WithYear(dates) ==
    { i \in DOMAIN dates : HasDateText(dates[i]) /\ isdigit(Prefix(dates[i]["date"], 4)) }

YearOf(item) == int(Prefix(item["date"], 4))

\* The entries of a list at the given positions, in the order of the list
Picked(list, positions) ==
    LET numbered == SelectSeq([i \in DOMAIN list |-> <<i, list[i]>>],
                              LAMBDA e : e[1] \in positions)
    IN [k \in DOMAIN numbered |-> numbered[k][2]]

\* C33: the schedule returned is the list of the entries whose year is the
\* greatest year of any entry, in the order received; when no entry has a
\* year, it is the whole list
C33_ScheduleIsLatestYearInScanOrder ==
    ScheduleFetched =>
        LET dates == fn_call.release_dates.data
            kept == { i \in WithYear(dates) :
                        \A j \in WithYear(dates) : YearOf(dates[i]) >= YearOf(dates[j]) }
            schedule == returned[1].payload["release_schedule"]
        IN
        IF WithYear(dates) = {} THEN schedule = dates
        ELSE schedule = Picked(dates, kept)

C33_Witness ==
    /\ ScheduleFetched
    /\ Len(fn_call.release_dates.data) = 3
    /\ Len(returned[1].payload["release_schedule"]) = 2
    /\ fn_call.release_dates.data[2] \notin
           { returned[1].payload["release_schedule"][i] : i \in 1..2 }

ScheduleCalled == fn_call.fn = "fetch_series_release_schedule" /\ returned # <<>>

\* The first request was answered without an error, with a release in it
ReleaseResolved ==
    /\ env.fred_api_key
    /\ HttpError = None
    /\ fn_call.series_id \in KnownSeries
    /\ fn_call.releases # <<>>

LatestReturned ==
    fn_call.fn = "fetch_latest" /\ fn_call.at = "returned" /\ returned[1].raised = None

LatestEnded == fn_call.fn = "fetch_latest" /\ fn_call.at \in {"returned", "raised"}

\* C35: the latest row of fetch_latest is a stored row that no stored row is
\* later than, the previous row is a stored row that no other row but the
\* latest is later than, and is absent when one row is stored; no more than two
\* rows are read; on an empty table the call ends in 'No meetings found'
C35_LatestAndPreviousByDate ==
    /\ LatestReturned =>
          LET latest_id == returned[1].latest.meeting_id
              previous == returned[1].previous
              stored == DOMAIN fomc_meetings
          IN
          /\ Len(returned[1].rows) <= 2
          /\ latest_id \in stored
          /\ returned[1].latest = row_to_dict(fomc_meetings[latest_id])
          /\ \A id \in stored :
                ~IsLater(fomc_meetings[id].meeting_date, fomc_meetings[latest_id].meeting_date)
          /\ (previous = NoDict) <=> (Cardinality(stored) = 1)
          /\ previous # NoDict =>
                /\ previous.meeting_id \in stored \ {latest_id}
                /\ previous = row_to_dict(fomc_meetings[previous.meeting_id])
                /\ \A id \in stored \ {latest_id} :
                      ~IsLater(fomc_meetings[id].meeting_date,
                               fomc_meetings[previous.meeting_id].meeting_date)
    /\ (LatestEnded /\ connections # <<>> /\ fn_call.exc = None /\ fomc_meetings = NoArgs) =>
          returned = <<Raised("LookupError: No meetings found")>>
    /\ LatestReturned => fomc_meetings # NoArgs

C35_Witness ==
    /\ LatestReturned
    /\ Cardinality(DOMAIN fomc_meetings) = 3
    /\ returned[1].previous # NoDict
    /\ IsLater(fomc_meetings[returned[1].latest.meeting_id].meeting_date,
               fomc_meetings[returned[1].previous.meeting_id].meeting_date)
    /\ \E id \in DOMAIN fomc_meetings :
          id \notin {returned[1].latest.meeting_id, returned[1].previous.meeting_id}

\* C39: when fetch_latest has returned or raised, every connection it opened
\* is closed, also when the query failed or the table was empty
C39_ConnectionClosedAtExit ==
    LatestEnded => \A i \in DOMAIN connections : connections[i] = "closed"

C39_Witness ==
    /\ LatestEnded
    /\ fn_call.exc # None
    /\ connections = <<"closed">>

\* The invocations of the request that call_tool counts, in the order made
CountedInvocations == SelectSeq(invocations, LAMBDA v : v.adapter # "retriever")

ActBatch == IF messages = <<>> THEN <<>> ELSE messages[Len(messages)].tool_calls

\* C37: an Act step changes attachments only when a fred_chart call of the
\* step returned an attachment, series_data only when a fred_recent_data call
\* returned a block, retrieved_docs and queries only when a retrieve_documents
\* call ran; on an empty history it changes no field of the state
C37_ActLeavesOtherArtifacts ==
    [][ pc = "tools" =>
          LET Ran(i, tool) ==
                  /\ i <= Len(last_act'.trace)
                  /\ last_act'.trace[i].outcome = "answered"
                  /\ ActBatch[i].name = tool
          IN
          /\ attachments' # attachments =>
                \E i \in DOMAIN ActBatch :
                    /\ Ran(i, "fred_chart")
                    /\ Dispatch(ActBatch[i].name, ActBatch[i].args).attachments # <<>>
          /\ series_data' # series_data =>
                \E i \in DOMAIN ActBatch :
                    /\ Ran(i, "fred_recent_data")
                    /\ Dispatch(ActBatch[i].name, ActBatch[i].args).series_data # <<>>
          /\ (retrieved_docs' # retrieved_docs \/ queries' # queries) =>
                \E i \in DOMAIN ActBatch :
                    /\ Ran(i, "retrieve_documents")
                    /\ Dispatch(ActBatch[i].name, ActBatch[i].args).invoked # <<>>
          /\ messages = <<>> =>
                UNCHANGED <<messages, tool_call_count, sources, attachments, series_data,
                            retrieved_docs, queries>> ]_vars

\* After a second Act step that fetched recent data: the attachment and the
\* documents of the first step are all there is of their kind
C37_Witness ==
    /\ pc = "agent"
    /\ last_act.at > 2
    /\ last_act.series_data # <<>>
    /\ last_act.attachments = <<>>
    /\ last_act.collected_docs = <<>>
    /\ Len(attachments) = 1
    /\ Len(series_data) = Len(last_act.series_data)

====
